---- MODULE Spec2Model ----
(***************************************************************************)
(* Model of src/BSAStreamBuffers.py: BSAStreamBuffer (one ring buffer fed  *)
(* by asynchronous value and rate callbacks) and dualBSAStreamBuffer       *)
(* (alignment of two snapshots at read time).                              *)
(*                                                                         *)
(* Two threads act on a BSAStreamBuffer: the delivery thread, which runs   *)
(* the _stream and _rate_update callbacks one at a time, and the consumer  *)
(* thread, which runs get_data, the setters (and so _reinit) and stop.     *)
(* Every step below is one stretch of code between two points where the    *)
(* other thread can observe or change the shared fields.                   *)
(*                                                                         *)
(* Numbers: rates are integers in Hz and are drawn so that                 *)
(* 360 / sample_rate is an integer, where Python's float arithmetic is     *)
(* exact; not-a-number is the integer nan, which no field can otherwise    *)
(* hold.                                                                   *)
(*                                                                         *)
(* Arrays: a numpy array is kept run by run, as a sequence of runs         *)
(* <<first, count, step>>, each standing for the count elements first,     *)
(* first + step, ...; the 2800 elements of a buffer are all there, ALen    *)
(* is len(), At is indexing from 1, Drop(b, k) is b[k:], Take(b, n) is     *)
(* b[:n] and SameArray is element-wise equality.  numpy's 0-d array(2800)  *)
(* of _reinit line 82 is the one-cell array holding 2800: it is the only   *)
(* buffer whose length is not 2800.                                        *)
(*                                                                         *)
(* Specifications: Spec follows one BSAStreamBuffer from line 75 of its    *)
(* constructor on; SpecDual and SpecAlign follow one dualBSAStreamBuffer   *)
(* from line 228 of its constructor on, by the same steps, and differ in   *)
(* what the PVs hold (the machine): SpecDual has the machines for the      *)
(* configuration calls, SpecAlign those for the alignment of get_data.     *)
(***************************************************************************)
EXTENDS Integers, Sequences, FiniteSets, TLC

\* ---------------------------------------------------------------- constants
BSA_BUFFER_LENGTH == 2800
AC_FIDUCIAL_RATE == 360
PULSE_ID_MODULUS == 16384
nan == -1000000

\* the beamlines of the two classes whose maximum rate divides 360 (the SC
\* class, maximum 102, gives a ticks_per_sample that is no integer)
BEAMLINES == {"NC_HXR", "F2"}

\* the beamlines of the SC class
SC_BEAMLINES == {"SC_BSYD", "SC_SXR", "SC_HXR"}
MAX_BUFRATES(beamline) ==
    IF beamline = "F2" THEN 30 ELSE IF beamline \in SC_BEAMLINES THEN 102 ELSE 120

\* ------------------------------------------------------------------- bounds
\* operations started on one stream: value updates, rate updates, setter
\* calls and reads
MaxOps == 2
\* writes of the caller into a returned array
MaxWrites == 1

\* ------------------------------------------------------- environment inputs
\* values the rate PV reports (0 is "no beam", 360 is above every maximum)
Rates == {0, 60, 360}
\* nanosecond fields of delivered updates: pulse ids around 100 and around
\* the 14-bit wrap, with high bits set so that the mask matters
NsEpoch == 3 * PULSE_ID_MODULUS
\* delivered (value, nanoseconds) pairs
UpdateInputs == {<<7001, NsEpoch + 100>>, <<7002, NsEpoch + 106>>,
                 <<7004, NsEpoch + 4>>}
Channels == {"chA", "chB"}
\* pulse id of the newest element of the history buffer
HistoryPids == {100, 16370}

\* ------------------------------------------------------------ pure helpers
Abs(x) == IF x < 0 THEN -x ELSE x
Min(a, b) == IF a <= b THEN a ELSE b
Sign(x) == IF x > 0 THEN 1 ELSE IF x < 0 THEN -1 ELSE 0

\* int(a / b) for b > 0: Python's int() truncates toward zero
TruncDiv(a, b) == IF a >= 0 THEN a \div b ELSE -((-a) \div b)

ns_to_pulse_ID(ns) == ns % PULSE_ID_MODULUS

\* ------------------------------------------------------------------ arrays
Run(first, count, step) == <<first, count, step>>

RECURSIVE ALen(_)
ALen(b) == IF b = <<>> THEN 0 ELSE Head(b)[2] + ALen(Tail(b))

RECURSIVE At(_, _)
At(b, i) ==
    LET r == Head(b)
    IN  IF i <= r[2] THEN r[1] + (i - 1) * r[3] ELSE At(Tail(b), i - r[2])

\* b[k:] for 0 <= k
RECURSIVE Drop(_, _)
Drop(b, k) ==
    IF k = 0 \/ b = <<>> THEN b
    ELSE LET r == Head(b)
         IN  IF k >= r[2] THEN Drop(Tail(b), k - r[2])
             ELSE <<Run(r[1] + k * r[3], r[2] - k, r[3])>> \o Tail(b)

\* b[:n] for 0 <= n
RECURSIVE Take(_, _)
Take(b, n) ==
    IF n = 0 \/ b = <<>> THEN <<>>
    ELSE LET r == Head(b)
         IN  IF n >= r[2] THEN <<r>> \o Take(Tail(b), n - r[2])
             ELSE <<Run(r[1], n, r[3])>>

\* the same elements in the same order
RECURSIVE SameArray(_, _)
SameArray(b, c) ==
    IF b = <<>> \/ c = <<>> THEN b = c
    ELSE LET r == Head(b)
             q == Head(c)
             m == Min(r[2], q[2])
         IN  /\ r[1] = q[1]
             /\ (m = 1 \/ r[3] = q[3])
             /\ SameArray(Drop(b, m), Drop(c, m))

\* b[i - 1] = v in Python's indexing from 0
SetAt(b, i, v) == Take(b, i - 1) \o <<Run(v, 1, 0)>> \o Drop(b, i)

NaNs(k) == <<Run(nan, k, 0)>>

Array0d == <<Run(BSA_BUFFER_LENGTH, 1, 0)>>

IsArray0d(b) == ALen(b) # BSA_BUFFER_LENGTH

push_to_ring_buffer(B, value) == Drop(B, 1) \o <<Run(value, 1, 0)>>

\* roll(b, -jump); b[-jump:] = nan
pad_missed(b, jump) ==
    IF jump >= ALen(b) THEN NaNs(ALen(b))
    ELSE Drop(b, jump) \o NaNs(jump)

\* the history PV's 2800 values for a channel
HistoryValue(ch) ==
    <<Run(IF ch = "chA" THEN 1 ELSE IF ch = "chB" THEN 10001 ELSE 20001,
          BSA_BUFFER_LENGTH, 1)>>

\* line 159: the value clamped to the maximum of the beamline's class
RateClamped(value, beamline) == Min(value, MAX_BUFRATES(beamline))

\* lines 98-99: the suffix chosen once the test of line 96 has failed, from
\* the _sample_rate read at line 98
history_suffix_elif(rate, beamline) ==
    IF rate >= MAX_BUFRATES(beamline)
    THEN (IF beamline \in SC_BEAMLINES THEN "HH" ELSE "BR")
    ELSE "1H"

\* lines 95-99 when both tests read the same _sample_rate
history_suffix(rate, beamline) ==
    IF rate >= 10 THEN "TH" ELSE history_suffix_elif(rate, beamline)

\* line 160: 1.0 / self._sample_rate for the _sample_rate read, kept in
\* units of 1/360 s; not-a-number for a zero value
spacing_from_rate(value, rate) ==
    IF value = 0 THEN nan ELSE AC_FIDUCIAL_RATE \div rate

\* line 161: AC_FIDUCIAL_RATE / self._sample_rate for the _sample_rate read
ticks_from_rate(value, rate) ==
    IF value = 0 THEN nan ELSE AC_FIDUCIAL_RATE \div rate

\* line 162: floor(2**14 / self._ticks_per_sample) for the ticks read; numpy's
\* floor of a not-a-number is a not-a-number
modulus_from_ticks(value, ticks) ==
    IF value = 0 \/ ticks = nan THEN nan ELSE PULSE_ID_MODULUS \div ticks

\* lines 159-162 with no other thread writing meanwhile
TicksFor(value, beamline) == ticks_from_rate(value, RateClamped(value, beamline))
ModulusFor(value, beamline) == modulus_from_ticks(value, TicksFor(value, beamline))
SpacingFor(value, beamline) == spacing_from_rate(value, RateClamped(value, beamline))

\* the value None
NoValue == -1

\* the frame of one call of _rate_update: the access it is about to make,
\* its argument, and the beamline and the field value it last read
RateFrame(value) == [pc |-> "159_read", value |-> value, bl |-> "", x |-> 0]
RateFrameEnded(pc, value) == [pc |-> pc, value |-> value, bl |-> "", x |-> 0]
NoRateFrame == RateFrameEnded("none", 0)

\* lines 159-162, one access to the object per step: st holds the object's
\* beamline, sample_rate, spacing, ticks and modulus, fr is the frame of the
\* call.  Each of lines 160-162 is skipped down to its store of a
\* not-a-number when the value is zero; 1.0 / 0 and 360.0 / 0 raise
\* ZeroDivisionError
rate_update_step(st, fr) ==
    LET next(after) == IF fr.value = 0 THEN after[1] ELSE after[2]
        read_rate(to) ==
            [st |-> st,
             fr |-> IF st.sample_rate = 0 THEN RateFrameEnded("raised", fr.value)
                    ELSE [fr EXCEPT !.pc = to, !.x = st.sample_rate]]
    IN  CASE fr.pc = "159_read" ->
               [st |-> st, fr |-> [fr EXCEPT !.pc = "159_store", !.bl = st.beamline]]
          [] fr.pc = "159_store" ->
               [st |-> [st EXCEPT !.sample_rate = RateClamped(fr.value, fr.bl)],
                fr |-> [fr EXCEPT !.pc = next(<<"160_store", "160_read">>)]]
          [] fr.pc = "160_read" -> read_rate("160_store")
          [] fr.pc = "160_store" ->
               [st |-> [st EXCEPT !.spacing = spacing_from_rate(fr.value, fr.x)],
                fr |-> [fr EXCEPT !.pc = next(<<"161_store", "161_read">>)]]
          [] fr.pc = "161_read" -> read_rate("161_store")
          [] fr.pc = "161_store" ->
               [st |-> [st EXCEPT !.ticks = ticks_from_rate(fr.value, fr.x)],
                fr |-> [fr EXCEPT !.pc = next(<<"162_store", "162_read">>)]]
          [] fr.pc = "162_read" ->
               [st |-> st, fr |-> [fr EXCEPT !.pc = "162_store", !.x = st.ticks]]
          [] fr.pc = "162_store" ->
               [st |-> [st EXCEPT !.modulus = modulus_from_ticks(fr.value, fr.x)],
                fr |-> RateFrameEnded("returned", fr.value)]

\* the call is over
RateEnded(fr) == fr.pc \in {"returned", "raised", "none"}

\* p - ticks in float arithmetic: nan when ticks is nan
MinusTicks(p, ticks) == IF ticks = nan THEN nan ELSE p - ticks

\* -------------------------------------------------------------------- state
VARIABLES
    \* BSAStreamBuffer fields
    channel, beamline, buffer, p_latest, p_prev,
    sample_rate, ticks_per_sample, buffer_modulus, sample_spacing,
    \* subscriptions: _stream attached to self._pv; the beamlines whose rate
    \* PV has _rate_update attached; holder of self._mutex
    pv_callback, rate_callbacks, mutex,
    \* the suffix in the name of the history PV last opened by _reinit
    pv_history,
    \* delivery thread: position in the callback it runs, the locals of
    \* _stream (value, nanoseconds, p_new, b, the _p_prev read at line 137,
    \* p_expected, jump), how the last _stream ended, the number of _reinit
    \* runs that had begun when _stream last read self._buffer, and the frame
    \* of the _rate_update it runs or ran last
    d_pc, d_value, d_ns, d_p_new, d_b, d_prev, d_expected, d_jump, d_outcome,
    d_epoch, d_ru,
    \* consumer thread: position in get_data / _reinit, last returned pair,
    \* the frame of the _rate_update called at line 94, and the
    \* ticks_per_sample read at line 111
    c_pc, snap_buf, snap_p, n_reads, c_ru, c_ticks,
    \* history: pulse id of the update that produced the newest element of
    \* buffer / of snap_buf; whether every update since the last Initialize
    \* came exactly ticks_per_sample after its predecessor; call counters
    buffer_src, snap_src, regular, n_updates, n_rates, n_reinits,
    \* calls: whether stop() has returned since the last _reinit; whether the
    \* array last returned by get_data is the object self._buffer refers to;
    \* writes the caller made into a returned array
    stopped, snap_alias, n_writes,
    \* dualBSAStreamBuffer.get_data: the locals b1, p1, b2, p2 of its last
    \* call, the ticks_per_sample and buffer_modulus it last read (lines 256
    \* and 257), the fields _p_latest and N_pts_sync, what the last call
    \* returned, and the number of calls
    al_b1, al_p1, al_b2, al_p2, al_ticks, al_modulus,
    dual_p_latest, N_pts_sync, al_out, n_aligns,
    \* what the PVs of the machine hold while the object is used
    machine,
    \* dualBSAStreamBuffer configuration: the fields _ch1, _ch2, _beamline;
    \* every BSAStreamBuffer object built so far, by number, and the numbers
    \* of the two members _s1 and _s2; the callbacks attached to each value
    \* PV and rate PV, as (PV, stream number) pairs; the last call made on
    \* the object and how it ended; call counters
    dc_ch1, dc_ch2, dc_beamline, streams, s1, s2, value_subs, rate_subs,
    dc_call, n_sets, n_deliveries,
    \* the call the consumer thread is running on the dualBSAStreamBuffer and
    \* its position in it; the callback the delivery thread is running on
    \* one of its streams, with the locals of _stream
    dc_run, dd_run

rate_fields == <<sample_rate, sample_spacing, ticks_per_sample, buffer_modulus>>
stream_vars == <<channel, beamline, buffer, p_latest, p_prev, rate_fields,
                 pv_callback, rate_callbacks, mutex, pv_history>>
stream_locals == <<d_value, d_ns, d_p_new, d_b, d_prev, d_expected, d_jump>>
delivery_vars == <<d_pc, stream_locals, d_outcome, d_epoch, d_ru>>
consumer_vars == <<c_pc, snap_buf, snap_p, n_reads, c_ru, c_ticks>>
history_vars == <<buffer_src, snap_src, regular, n_updates, n_rates, n_reinits>>
align_vars == <<al_b1, al_p1, al_b2, al_p2, al_ticks, al_modulus,
                dual_p_latest, N_pts_sync, al_out, n_aligns>>
call_vars == <<stopped, snap_alias, n_writes>>
dual_vars == <<machine, dc_ch1, dc_ch2, dc_beamline, streams, s1, s2,
               value_subs, rate_subs, dc_call, n_sets, n_deliveries, dc_run, dd_run>>
vars == <<stream_vars, delivery_vars, consumer_vars, history_vars, call_vars,
          align_vars, dual_vars>>

\* operations started so far (a read counts once it has read the buffer)
OpsStarted == n_updates + n_rates + n_reinits + n_reads
                + (IF c_pc = "get_read_buffer" THEN 1 ELSE 0)

\* the fields of the object that _rate_update reads and writes
RateFields ==
    [beamline |-> beamline, sample_rate |-> sample_rate, spacing |-> sample_spacing,
     ticks |-> ticks_per_sample, modulus |-> buffer_modulus]

\* the fields st become the object's
InstallRateFields(st) ==
    /\ sample_rate' = st.sample_rate
    /\ sample_spacing' = st.spacing
    /\ ticks_per_sample' = st.ticks
    /\ buffer_modulus' = st.modulus

\* ------------------------------------------------- BSAStreamBuffer: _stream
\* the subscription layer invokes the attached callback with (value, ns)
StreamCall ==
    /\ d_pc = "idle"
    /\ pv_callback
    /\ OpsStarted < MaxOps
    /\ \E u \in UpdateInputs :
        /\ d_value' = u[1]
        /\ d_ns' = u[2]
        /\ regular' = (/\ regular
                       /\ sample_rate # 0
                       /\ ns_to_pulse_ID(u[2]) = p_latest + ticks_per_sample)
    /\ d_pc' = "called"
    /\ d_outcome' = "none"
    /\ n_updates' = n_updates + 1
    /\ UNCHANGED <<stream_vars, consumer_vars, call_vars, align_vars, dual_vars,
                   d_p_new, d_b, d_prev, d_expected, d_jump, d_epoch, d_ru,
                   buffer_src, snap_src, n_rates, n_reinits>>

\* a _stream that never discards
rate_never_undefined(rate) == FALSE

\* line 134: not self._sample_rate
rate_undefined(rate) == rate = 0

\* line 137: (self._p_prev + self.ticks_per_sample) % 2**14 in float
\* arithmetic, from the _p_prev read and the ticks_per_sample read after it
p_expected(prev, ticks) ==
    IF prev = nan \/ ticks = nan THEN nan ELSE (prev + ticks) % PULSE_ID_MODULUS

\* line 138: int((p_new - p_expected) / self.ticks_per_sample), with the
\* ticks_per_sample read at that line
jump_of(p_new, expected, ticks) == TruncDiv(p_new - expected, ticks)

\* a step of _stream that changes nothing but its locals
StreamStep(from, to) ==
    /\ d_pc = from
    /\ d_pc' = to
    /\ UNCHANGED <<stream_vars, consumer_vars, history_vars, call_vars, align_vars,
                   dual_vars, d_value, d_ns, d_ru>>

\* the frame of _stream is gone: b, the _p_prev read, p_expected and jump
\* are no more
StreamLocalsGone ==
    /\ d_b' = <<>>
    /\ d_prev' = 0
    /\ d_expected' = 0
    /\ d_jump' = 0

\* _stream ends here, with an exception or by the return of line 134
StreamEnds(outcome) ==
    /\ d_pc' = "idle"
    /\ d_outcome' = outcome
    /\ StreamLocalsGone
    /\ UNCHANGED <<stream_vars, consumer_vars, history_vars, call_vars, align_vars,
                   dual_vars, d_value, d_ns, d_ru>>

\* line 134: self._sample_rate is read; the update is discarded when it is
\* zero
StreamReadRate ==
    /\ d_pc = "called"
    /\ IF rate_undefined(sample_rate)
       THEN StreamEnds("discarded")
       ELSE /\ StreamStep("called", "read_rate")
            /\ UNCHANGED <<d_b, d_prev, d_expected, d_jump, d_outcome>>
    /\ UNCHANGED <<d_p_new, d_epoch>>

\* lines 135-136: p_new, and b = deepcopy(self._buffer)
StreamReadBuffer ==
    /\ StreamStep("read_rate", "read_buffer")
    /\ d_p_new' = ns_to_pulse_ID(d_ns)
    /\ d_b' = buffer
    /\ d_epoch' = n_reinits
    /\ UNCHANGED <<d_prev, d_expected, d_jump, d_outcome>>

\* line 137, left operand: self._p_prev is read
StreamReadPrev ==
    /\ StreamStep("read_buffer", "read_prev")
    /\ d_prev' = p_prev
    /\ UNCHANGED <<d_p_new, d_b, d_expected, d_jump, d_outcome, d_epoch>>

\* line 137, right operand: self.ticks_per_sample is read, p_expected
StreamExpected ==
    /\ StreamStep("read_prev", "expected")
    /\ d_expected' = p_expected(d_prev, ticks_per_sample)
    /\ UNCHANGED <<d_p_new, d_b, d_prev, d_jump, d_outcome, d_epoch>>

\* lines 138-143: self.ticks_per_sample is read again, jump, and the gap
\* padding of the local copy
StreamCompute ==
    /\ d_pc = "expected"
    /\ IF d_expected = nan \/ ticks_per_sample = nan
       THEN \* int() of a not-a-number raises ValueError
            StreamEnds("raised")
       ELSE LET jump == jump_of(d_p_new, d_expected, ticks_per_sample)
            IN  IF jump > 0 /\ IsArray0d(d_b)
                THEN \* slice assignment into a 0-d array raises IndexError
                     StreamEnds("raised")
                ELSE /\ StreamStep("expected", "computed")
                     /\ d_jump' = jump
                     /\ d_b' = IF jump > 0 THEN pad_missed(d_b, jump) ELSE d_b
                     /\ UNCHANGED <<d_prev, d_expected, d_outcome>>
    /\ UNCHANGED <<d_p_new, d_epoch>>

\* line 149-150: take the mutex, self._buffer = _push_to_ring_buffer(b, value)
StreamWriteBuffer ==
    /\ d_pc = "computed"
    /\ mutex = "free"
    /\ IF IsArray0d(d_b)
       THEN \* B[-1] = value on a 0-d array raises IndexError; the with block
            \* releases the mutex
            /\ d_pc' = "idle"
            /\ d_outcome' = "raised"
            /\ StreamLocalsGone
            /\ UNCHANGED <<buffer, buffer_src, mutex, snap_alias>>
       ELSE /\ buffer' = push_to_ring_buffer(d_b, d_value)
            /\ buffer_src' = d_p_new
            /\ snap_alias' = FALSE
            /\ mutex' = "stream"
            /\ d_pc' = "wrote_buffer"
            /\ UNCHANGED <<d_b, d_prev, d_expected, d_jump, d_outcome>>
    /\ UNCHANGED <<channel, beamline, p_latest, p_prev, rate_fields,
                   pv_callback, rate_callbacks, pv_history,
                   d_value, d_ns, d_p_new, d_epoch, d_ru,
                   consumer_vars, align_vars, dual_vars,
                   snap_src, regular, n_updates, n_rates, n_reinits,
                   stopped, n_writes>>

\* line 151: self._p_prev = self._p_latest
StreamWritePrev ==
    /\ d_pc = "wrote_buffer"
    /\ p_prev' = p_latest
    /\ d_pc' = "wrote_prev"
    /\ UNCHANGED <<channel, beamline, buffer, p_latest, rate_fields,
                   pv_callback, rate_callbacks, pv_history, mutex,
                   stream_locals, d_outcome, d_epoch, d_ru,
                   consumer_vars, history_vars, call_vars, align_vars, dual_vars>>

\* line 152: self._p_latest = p_new, and the mutex is released
StreamWriteLatest ==
    /\ d_pc = "wrote_prev"
    /\ p_latest' = d_p_new
    /\ mutex' = "free"
    /\ d_pc' = "idle"
    /\ d_outcome' = "applied"
    /\ StreamLocalsGone
    /\ UNCHANGED <<channel, beamline, buffer, p_prev, rate_fields,
                   pv_callback, rate_callbacks, pv_history,
                   d_value, d_ns, d_p_new, d_epoch, d_ru,
                   consumer_vars, history_vars, call_vars, align_vars, dual_vars>>

\* -------------------------------------------- BSAStreamBuffer: _rate_update
\* a rate PV that still has the callback attached invokes
\* _rate_update(value)
RateUpdate ==
    /\ d_pc = "idle"
    /\ rate_callbacks # {}
    /\ OpsStarted < MaxOps
    /\ \E value \in Rates : d_ru' = RateFrame(value)
    /\ d_pc' = "rate_update"
    /\ n_rates' = n_rates + 1
    /\ regular' = FALSE
    /\ UNCHANGED <<stream_vars, stream_locals, d_outcome, d_epoch,
                   consumer_vars, call_vars, align_vars, dual_vars,
                   buffer_src, snap_src, n_updates, n_reinits>>

\* lines 159-162 on the delivery thread: the next access of the call
RateUpdateStep ==
    /\ d_pc = "rate_update"
    /\ LET r == rate_update_step(RateFields, d_ru)
       IN  /\ InstallRateFields(r.st)
           /\ d_ru' = r.fr
           /\ d_pc' = IF RateEnded(r.fr) THEN "idle" ELSE "rate_update"
    /\ UNCHANGED <<channel, beamline, buffer, p_latest, p_prev,
                   pv_callback, rate_callbacks, mutex, pv_history,
                   stream_locals, d_outcome, d_epoch,
                   consumer_vars, history_vars, call_vars, align_vars, dual_vars>>

\* line 159 with value None: min(None, ...) raises TypeError before anything
\* is assigned
RateUpdateAbsent ==
    /\ d_pc = "idle"
    /\ rate_callbacks # {}
    /\ OpsStarted < MaxOps
    /\ d_ru' = RateFrameEnded("raised", NoValue)
    /\ n_rates' = n_rates + 1
    /\ UNCHANGED <<stream_vars, d_pc, stream_locals, d_outcome, d_epoch,
                   consumer_vars, call_vars, align_vars, dual_vars,
                   buffer_src, snap_src, regular, n_updates, n_reinits>>

\* ------------------------------------------------ BSAStreamBuffer: get_data
\* line 126 evaluates self._buffer, then self._p_latest; it takes no lock and
\* makes no copy
GetDataReadBuffer ==
    /\ c_pc = "idle"
    /\ OpsStarted < MaxOps
    /\ snap_buf' = buffer
    /\ snap_src' = buffer_src
    /\ snap_alias' = TRUE
    /\ c_pc' = "get_read_buffer"
    /\ UNCHANGED <<stream_vars, delivery_vars, align_vars, dual_vars, snap_p, n_reads,
                   c_ru, c_ticks,
                   buffer_src, regular, n_updates, n_rates, n_reinits,
                   stopped, n_writes>>

GetDataReadPulse ==
    /\ c_pc = "get_read_buffer"
    /\ snap_p' = p_latest
    /\ n_reads' = n_reads + 1
    /\ c_pc' = "idle"
    /\ UNCHANGED <<stream_vars, delivery_vars, history_vars, call_vars, align_vars,
                   dual_vars, snap_buf, c_ru, c_ticks>>

\* a pair has been returned and no later get_data is half way
SnapshotReturned == n_reads > 0 /\ c_pc # "get_read_buffer"

\* what the caller stores into a returned array, and where
CallerValue == -5
CallerIndex == 1

\* the caller assigns to an element of the array get_data returned: line 126
\* returns self._buffer itself, so while self._buffer still refers to that
\* object the write is a write to the stream's buffer
CallerWrites ==
    /\ SnapshotReturned
    /\ c_pc = "idle"
    /\ n_writes < MaxWrites
    /\ ~IsArray0d(snap_buf)
    /\ snap_buf' = SetAt(snap_buf, CallerIndex, CallerValue)
    /\ buffer' = IF snap_alias THEN SetAt(snap_buf, CallerIndex, CallerValue)
                  ELSE buffer
    /\ n_writes' = n_writes + 1
    /\ regular' = FALSE
    /\ UNCHANGED <<channel, beamline, p_latest, p_prev, rate_fields,
                   pv_callback, rate_callbacks, pv_history, mutex,
                   delivery_vars, align_vars, dual_vars, c_pc, snap_p, n_reads,
                   c_ru, c_ticks,
                   buffer_src, snap_src, n_updates, n_rates, n_reinits,
                   stopped, snap_alias>>

\* --------------------------------------- BSAStreamBuffer: setters, _reinit
reinit_failure_swallowed(raise_errors) == "warned"

\* lines 117-122
reinit_failure(raise_errors) == IF raise_errors THEN "raised" ELSE "warned"

\* the _reinit that runs was called by __init__ (line 75,
\* raise_errors=True); the setters call it with the default (lines 176, 184)
Constructing == n_reinits = 0

\* where an exception inside _reinit leaves the consumer thread (lines
\* 117-122): out of the constructor, with no object for the caller, or back
\* in the caller of the setter
ReinitFailed == IF reinit_failure(Constructing) = "raised" THEN "failed" ELSE "idle"

\* lines 82-84: the buffer becomes array(2800), the callbacks of the old
\* value PV are cleared, the new value PV is opened; the thread then waits
\* for it at line 85
ReinitLines82to84 ==
    /\ buffer' = Array0d
    /\ buffer_src' = nan
    /\ pv_callback' = FALSE
    /\ c_pc' = "reinit_wait_pv"
    /\ regular' = FALSE
    /\ snap_alias' = FALSE
    /\ stopped' = FALSE
    /\ UNCHANGED <<p_latest, p_prev, rate_fields, rate_callbacks, mutex, pv_history,
                   delivery_vars, align_vars, dual_vars,
                   snap_buf, snap_p, n_reads, c_ru, c_ticks, snap_src,
                   n_updates, n_rates, n_writes>>

\* lines 181-184, 82-84: the channel is stored (only the consumer thread
\* reads it) and _reinit runs up to the wait of line 85
SetChannel ==
    /\ c_pc = "idle"
    /\ OpsStarted < MaxOps
    /\ \E ch \in Channels : channel' = ch
    /\ n_reinits' = n_reinits + 1
    /\ ReinitLines82to84
    /\ UNCHANGED beamline

\* lines 172-175, for a valid beamline: self._beamline is stored, which
\* _rate_update reads on the delivery thread
SetBeamline ==
    /\ c_pc = "idle"
    /\ OpsStarted < MaxOps
    /\ \E bl \in BEAMLINES : beamline' = bl
    /\ n_reinits' = n_reinits + 1
    /\ c_pc' = "reinit_begin"
    /\ regular' = FALSE
    /\ UNCHANGED <<channel, buffer, p_latest, p_prev, rate_fields,
                   pv_callback, rate_callbacks, mutex, pv_history,
                   delivery_vars, align_vars, dual_vars, call_vars,
                   snap_buf, snap_p, n_reads, c_ru, c_ticks,
                   buffer_src, snap_src, n_updates, n_rates>>

\* lines 82-84 of the _reinit that __init__ (line 75) or the beamline setter
\* (line 176, after the beamline was stored) called
ReinitBegin ==
    /\ c_pc = "reinit_begin"
    /\ ReinitLines82to84
    /\ UNCHANGED <<channel, beamline, n_reinits>>

\* a step of _reinit that changes none of buffer, cursors and rate fields
ReinitFrame ==
    UNCHANGED <<channel, beamline, buffer, p_latest, p_prev, rate_fields,
                delivery_vars, history_vars, call_vars, align_vars, dual_vars,
                snap_buf, snap_p, n_reads>>

\* lines 85-87: the wait for the value PV ends, its callbacks are cleared,
\* the rate PV is opened; the thread then waits for it at line 88
ReinitValuePV ==
    /\ c_pc = "reinit_wait_pv"
    /\ pv_callback' = FALSE
    /\ c_pc' = "reinit_wait_rate"
    /\ ReinitFrame
    /\ UNCHANGED <<rate_callbacks, mutex, pv_history, c_ru, c_ticks>>

\* lines 88-90: the wait for the rate PV ends, its callbacks are cleared and
\* _rate_update is attached; the thread then waits in get() at line 93
ReinitAttachRate ==
    /\ c_pc = "reinit_wait_rate"
    /\ rate_callbacks' = rate_callbacks \cup {beamline}
    /\ c_pc' = "reinit_rate"
    /\ ReinitFrame
    /\ UNCHANGED <<pv_callback, mutex, pv_history, c_ru, c_ticks>>

\* line 93: get() answers, self._sample_rate = min(value, maximum)
ReinitRate ==
    /\ c_pc = "reinit_rate"
    /\ \E value \in Rates : sample_rate' = RateClamped(value, beamline)
    /\ c_pc' = "reinit_rate_call"
    /\ UNCHANGED <<channel, beamline, buffer, p_latest, p_prev,
                   sample_spacing, ticks_per_sample, buffer_modulus,
                   pv_callback, rate_callbacks, mutex, pv_history,
                   delivery_vars, history_vars, call_vars, align_vars, dual_vars,
                   snap_buf, snap_p, n_reads, c_ru, c_ticks>>

\* line 93 with a rate PV that did not connect: get() is None, min() raises
\* TypeError, lines 117-122 raise or warn
ReinitRateFails ==
    /\ c_pc = "reinit_rate"
    /\ c_pc' = ReinitFailed
    /\ UNCHANGED <<stream_vars, delivery_vars, history_vars, call_vars, align_vars,
                   dual_vars, snap_buf, snap_p, n_reads, c_ru, c_ticks>>

\* line 94: self._sample_rate is read and _rate_update called with it; the
\* call reads self.beamline (line 159), which only this thread writes
ReinitRateCall ==
    /\ c_pc = "reinit_rate_call"
    /\ c_ru' = rate_update_step(RateFields, RateFrame(sample_rate)).fr
    /\ c_pc' = "reinit_rate_update"
    /\ ReinitFrame
    /\ UNCHANGED <<pv_callback, rate_callbacks, mutex, pv_history, c_ticks>>

\* lines 159-162 on the consumer thread: the next access of the call; an
\* exception goes to lines 117-122
ReinitRateUpdateStep ==
    /\ c_pc = "reinit_rate_update"
    /\ LET r == rate_update_step(RateFields, c_ru)
       IN  /\ InstallRateFields(r.st)
           /\ c_ru' = r.fr
           /\ c_pc' = IF r.fr.pc = "returned" THEN "reinit_suffix"
                      ELSE IF r.fr.pc = "raised" THEN ReinitFailed
                      ELSE "reinit_rate_update"
    /\ UNCHANGED <<channel, beamline, buffer, p_latest, p_prev,
                   pv_callback, rate_callbacks, mutex, pv_history,
                   delivery_vars, history_vars, call_vars, align_vars, dual_vars,
                   snap_buf, snap_p, n_reads, c_ticks>>

\* lines 95-97, 100-102: self._sample_rate is read for the test of line 96;
\* at 10 or more the history PV with suffix TH is opened and the thread
\* waits for it at line 103
ReinitSuffix ==
    /\ c_pc = "reinit_suffix"
    /\ IF sample_rate >= 10
       THEN pv_history' = "TH" /\ c_pc' = "reinit_history"
       ELSE UNCHANGED pv_history /\ c_pc' = "reinit_suffix_elif"
    /\ ReinitFrame
    /\ UNCHANGED <<pv_callback, rate_callbacks, mutex, c_ru, c_ticks>>

\* lines 98-102: self._sample_rate is read again for the test of line 98,
\* the history PV is opened and the thread waits for it at line 103
ReinitSuffixElif ==
    /\ c_pc = "reinit_suffix_elif"
    /\ pv_history' = history_suffix_elif(sample_rate, beamline)
    /\ c_pc' = "reinit_history"
    /\ ReinitFrame
    /\ UNCHANGED <<pv_callback, rate_callbacks, mutex, c_ru, c_ticks>>

\* lines 103-108: the wait for the history PV ends, the mutex is taken;
\* the thread then waits in get_with_metadata() at line 109
ReinitLock ==
    /\ c_pc = "reinit_history"
    /\ mutex = "free"
    /\ mutex' = "reinit"
    /\ c_pc' = "reinit_get"
    /\ ReinitFrame
    /\ UNCHANGED <<pv_callback, rate_callbacks, pv_history, c_ru, c_ticks>>

\* lines 109-111, under the mutex: the history PV answers, _p_latest is
\* stored (_stream reads it only under the mutex), and
\* self.ticks_per_sample is read for line 111
ReinitHistory ==
    /\ c_pc = "reinit_get"
    /\ \E h \in HistoryPids : p_latest' = h
    /\ c_ticks' = ticks_per_sample
    /\ c_pc' = "reinit_prev"
    /\ UNCHANGED <<channel, beamline, buffer, p_prev, rate_fields,
                   pv_callback, rate_callbacks, pv_history, mutex,
                   delivery_vars, history_vars, call_vars, align_vars, dual_vars,
                   snap_buf, snap_p, n_reads, c_ru>>

\* line 111: self._p_prev is stored
ReinitPrev ==
    /\ c_pc = "reinit_prev"
    /\ p_prev' = MinusTicks(p_latest, c_ticks)
    /\ c_pc' = "reinit_install"
    /\ UNCHANGED <<channel, beamline, buffer, p_latest, rate_fields,
                   pv_callback, rate_callbacks, pv_history, mutex,
                   delivery_vars, history_vars, call_vars, align_vars, dual_vars,
                   snap_buf, snap_p, n_reads, c_ru, c_ticks>>

\* lines 109-110 with a history PV that did not connect: get_with_metadata()
\* is None, the subscript raises TypeError, the with block releases the mutex
ReinitHistoryFails ==
    /\ c_pc = "reinit_get"
    /\ mutex' = "free"
    /\ c_pc' = ReinitFailed
    /\ ReinitFrame
    /\ UNCHANGED <<pv_callback, rate_callbacks, pv_history, c_ru, c_ticks>>

\* lines 112-113: the history buffer is installed, _stream is attached
ReinitInstall ==
    /\ c_pc = "reinit_install"
    /\ buffer' = HistoryValue(channel)
    /\ buffer_src' = p_latest
    /\ pv_callback' = TRUE
    /\ mutex' = "free"
    /\ c_pc' = "idle"
    /\ regular' = (d_pc = "idle")
    /\ snap_alias' = FALSE
    /\ UNCHANGED <<channel, beamline, p_latest, p_prev, rate_fields,
                   rate_callbacks, pv_history,
                   delivery_vars, align_vars, dual_vars, snap_buf, snap_p, n_reads,
                   c_ru, c_ticks,
                   snap_src, n_updates, n_rates, n_reinits,
                   stopped, n_writes>>

\* lines 164-167
Stop ==
    /\ c_pc = "idle"
    /\ pv_callback' = FALSE
    /\ rate_callbacks' = rate_callbacks \ {beamline}
    /\ stopped' = TRUE
    /\ UNCHANGED <<pv_history, channel, beamline, buffer, p_latest, p_prev,
                   rate_fields, mutex,
                   delivery_vars, consumer_vars, history_vars, align_vars, dual_vars,
                   snap_alias, n_writes>>


\* ------------------------------------------ dualBSAStreamBuffer: get_data
\* lines 256-258: the signed shot offset for a pulse id difference dp # 0
dshot_raw(dp, ticks) == TruncDiv(dp, ticks)

dshot_rollover(dp, ticks, modulus) == dshot_raw(dp, ticks) - modulus

shot_offset(dp, ticks, modulus) ==
    Sign(dp) * Min(Abs(dshot_raw(dp, ticks)), Abs(dshot_rollover(dp, ticks, modulus)))

\* what ndarray((2, N)) holds before anything is written to it
Garbage == {0, 424242}
GarbageRow(g) == <<Run(g, BSA_BUFFER_LENGTH, 0)>>

\* lines 263-269: the two rows of b_synced for 2800-length buffers and
\* |offset| <= 2800; with offset = 0 neither branch writes the new array
sync_rows(b1, b2, offset, g) ==
    LET N == BSA_BUFFER_LENGTH - Abs(offset)
    IN  IF offset > 0 THEN <<Drop(b1, offset), Take(b2, N)>>
        ELSE IF offset < 0 THEN <<Take(b1, N), Drop(b2, -offset)>>
        ELSE <<GarbageRow(g), GarbageRow(g)>>

\* line 249 returns before line 262: N_pts_sync keeps its value
synced_count_when_equal(n_prev) == n_prev

\* a call that has not been made
NoResult == [raised |-> FALSE, rows |-> <<>>, p |-> -1, N |-> -1, offset |-> nan,
             from |-> <<>>]

\* an exception left the call; from is what the call had read
Raised(from, p, n, offset) ==
    [raised |-> TRUE, rows |-> <<>>, p |-> p, N |-> n, offset |-> offset,
     from |-> from]

\* lines 245-271 as a function of the two snapshots, the rate-derived
\* quantities of stream 1, the previous N_pts_sync and the memory contents g:
\* what is returned (or that an exception left the call) and N_pts_sync after
dual_get_data(b1, p1, b2, p2, ticks, modulus, n_prev, g) ==
    LET dp == p2 - p1
        latest == Min(p1, p2)
        from == <<b1, p1, b2, p2, ticks, modulus>>
    IN  IF dp = 0
        THEN IF ALen(b1) # ALen(b2)
             THEN \* vstack of a 0-d array(2800) and a 2800-element buffer
                  \* raises ValueError at line 249
                  Raised(from, latest, synced_count_when_equal(n_prev), nan)
             ELSE [raised |-> FALSE, rows |-> <<b1, b2>>, p |-> latest,
                   N |-> synced_count_when_equal(n_prev), offset |-> nan,
                   from |-> from]
        ELSE IF ticks = nan \/ modulus = nan
        THEN \* int(dp / nan) raises ValueError at line 256, int(n - nan)
             \* at line 257
             Raised(from, latest, n_prev, nan)
        ELSE LET offset == shot_offset(dp, ticks, modulus)
                 N == BSA_BUFFER_LENGTH - Abs(offset)
             IN  IF N < 0 \/ (offset # 0 /\ (IsArray0d(b1) \/ IsArray0d(b2)))
                 THEN \* ndarray with a negative dimension raises ValueError,
                      \* slicing a 0-d array raises IndexError; lines 258 and
                      \* 262 have run
                      Raised(from, latest, N, offset)
                 ELSE [raised |-> FALSE, rows |-> sync_rows(b1, b2, offset, g),
                       p |-> latest, N |-> N, offset |-> offset, from |-> from]

\* ------------------------------------------------------------ the machine
\* what the PVs hold while a dualBSAStreamBuffer is used: the rate PV's
\* value and, for each channel, the newest element of its history PV as
\* <<pulse number, pulse id>>.  Every sample carries its pulse number as its
\* value, so a history PV's 2800 values are the pulse numbers up to that one
Machine(rate, a, b, c) == [rate |-> rate, chA |-> a, chB |-> b, chC |-> c]

MachineHistory(m, ch) ==
    IF ch = "chA" THEN m.chA ELSE IF ch = "chB" THEN m.chB ELSE m.chC

SampleWindow(n) == <<Run(n - BSA_BUFFER_LENGTH + 1, BSA_BUFFER_LENGTH, 1)>>

\* the pulse id of pulse number n when pulse ids advance by ticks per
\* sample, modulo 2^14; jitter is a phase difference below one sample
PulseIdOf(n, ticks, jitter) == (n * ticks + jitter) % PULSE_ID_MODULUS

Newest(n, ticks, jitter) == <<n, PulseIdOf(n, ticks, jitter)>>

\* machines for the configuration calls: 60 Hz, every history PV at pulse
\* id 100, or the first channel's at pulse id 0
DualMachines ==
    {Machine(60, <<2800, 100>>, <<12800, 100>>, <<22800, 100>>),
     Machine(60, <<2800, 0>>, <<12800, 100>>, <<22800, 100>>)}

\* machines for the alignment: at 60 Hz (6 ticks per sample) the second
\* channel three samples behind and three samples ahead of the first across
\* the 14-bit wrap, three samples ahead without a wrap, level with it, and
\* one sample behind with a phase of one tick; at 120 Hz (the rate PV
\* reports 360) three samples ahead across the wrap; and no beam (rate 0)
AlignMachines ==
    {Machine(60, Newest(10923, 6, 0), Newest(10920, 6, 0), Newest(10923, 6, 0)),
     Machine(60, Newest(10921, 6, 0), Newest(10924, 6, 0), Newest(10921, 6, 0)),
     Machine(60, Newest(7000, 6, 0), Newest(7003, 6, 0), Newest(7000, 6, 0)),
     Machine(60, Newest(7000, 6, 0), Newest(7000, 6, 0), Newest(7000, 6, 0)),
     Machine(60, Newest(7000, 6, 0), Newest(6999, 6, 1), Newest(7000, 6, 0)),
     Machine(360, Newest(10921, 3, 0), Newest(10924, 3, 0), Newest(10921, 3, 0)),
     Machine(0, Newest(7000, 6, 0), Newest(6999, 6, 0), Newest(7000, 6, 0))}

\* ticks between two samples the value PVs deliver
MachineSpacing(m) == IF m.rate = 0 THEN 6 ELSE TicksFor(m.rate, "NC_HXR")

\* the (value, nanoseconds) pairs the value PV of a channel delivers: the
\* sample after the newest of the history PV, and the one two samples later
MachineUpdates(m, ch) ==
    LET h == MachineHistory(m, ch)
    IN  {<<h[1] + 1, NsEpoch + h[2] + MachineSpacing(m)>>,
         <<h[1] + 3, NsEpoch + h[2] + 3 * MachineSpacing(m)>>}

StreamOff ==
    /\ channel = "chA" /\ beamline = "NC_HXR"
    /\ buffer = <<>> /\ p_latest = 0 /\ p_prev = 0
    /\ sample_rate = 0 /\ ticks_per_sample = nan /\ buffer_modulus = nan
    /\ sample_spacing = nan
    /\ stopped = FALSE
    /\ snap_alias = FALSE /\ n_writes = 0
    /\ pv_callback = FALSE /\ rate_callbacks = {} /\ mutex = "free"
    /\ pv_history = ""
    /\ d_pc = "off" /\ d_value = 0 /\ d_ns = 0 /\ d_p_new = 0
    /\ d_b = <<>> /\ d_prev = 0 /\ d_expected = 0
    /\ d_jump = 0 /\ d_outcome = "none" /\ d_epoch = 0
    /\ d_ru = NoRateFrame
    /\ c_pc = "off" /\ snap_buf = <<>> /\ snap_p = -1 /\ n_reads = 0
    /\ c_ru = NoRateFrame /\ c_ticks = nan
    /\ buffer_src = nan /\ snap_src = nan /\ regular = FALSE
    /\ n_updates = 0 /\ n_rates = 0 /\ n_reinits = 0

NoCall == [op |-> "none", arg |-> "", outcome |-> "none", prev |-> <<0, 0>>,
           member |-> "none", built |-> <<"none", "none">>]

\* no get_data call has been made (lines 224-227: _p_latest and N_pts_sync
\* are -1)
AlignOff ==
    /\ al_b1 = <<>> /\ al_b2 = <<>>
    /\ al_p1 = 0 /\ al_p2 = 0
    /\ al_ticks = nan /\ al_modulus = nan
    /\ dual_p_latest = -1 /\ N_pts_sync = -1
    /\ al_out = NoResult
    /\ n_aligns = 0

DualOff ==
    /\ machine = <<>>
    /\ dc_ch1 = "" /\ dc_ch2 = "" /\ dc_beamline = ""
    /\ streams = <<>> /\ s1 = 0 /\ s2 = 0
    /\ value_subs = {} /\ rate_subs = {}
    /\ dc_call = NoCall /\ n_sets = 0 /\ n_deliveries = 0
    /\ dc_run = [pc |-> "off"] /\ dd_run = [pc |-> "off"]

\* ------------------------------------------------------------ specification
\* the object at line 75, after lines 71-74: __init__ is about to call
\* _reinit(raise_errors=True); no attribute that _reinit assigns exists yet
Init ==
    /\ channel = "chA"
    /\ beamline = "NC_HXR"
    /\ buffer = <<>> /\ p_latest = nan /\ p_prev = nan
    /\ sample_rate = 0 /\ ticks_per_sample = nan /\ buffer_modulus = nan
    /\ sample_spacing = nan
    /\ pv_history = ""
    /\ stopped = FALSE
    /\ snap_alias = FALSE /\ n_writes = 0
    /\ buffer_src = nan
    /\ pv_callback = FALSE
    /\ rate_callbacks = {}
    /\ mutex = "free"
    /\ d_pc = "idle" /\ d_value = 0 /\ d_ns = 0 /\ d_p_new = 0
    /\ d_b = <<>> /\ d_prev = 0 /\ d_expected = 0
    /\ d_jump = 0 /\ d_outcome = "none" /\ d_epoch = 0
    /\ d_ru = NoRateFrame
    /\ c_pc = "reinit_begin" /\ snap_buf = <<>> /\ snap_p = -1 /\ n_reads = 0
    /\ c_ru = NoRateFrame /\ c_ticks = nan
    /\ snap_src = nan /\ regular = FALSE
    /\ n_updates = 0 /\ n_rates = 0 /\ n_reinits = 0
    /\ AlignOff
    /\ DualOff

Next ==
    \/ StreamCall
    \/ StreamReadRate
    \/ StreamReadBuffer
    \/ StreamReadPrev
    \/ StreamExpected
    \/ StreamCompute
    \/ StreamWriteBuffer
    \/ StreamWritePrev
    \/ StreamWriteLatest
    \/ RateUpdate
    \/ RateUpdateStep
    \/ RateUpdateAbsent
    \/ GetDataReadBuffer
    \/ GetDataReadPulse
    \/ CallerWrites
    \/ SetChannel
    \/ SetBeamline
    \/ ReinitBegin
    \/ ReinitValuePV
    \/ ReinitAttachRate
    \/ ReinitRate
    \/ ReinitRateFails
    \/ ReinitRateCall
    \/ ReinitRateUpdateStep
    \/ ReinitSuffix
    \/ ReinitSuffixElif
    \/ ReinitLock
    \/ ReinitHistory
    \/ ReinitPrev
    \/ ReinitHistoryFails
    \/ ReinitInstall
    \/ Stop

Spec == Init /\ [][Next]_vars


\* ------------------------------- dualBSAStreamBuffer: members and setters
\* channels whose PVs exist, and one whose PVs never connect
DualChannels == {"chA", "chB", "chC"}
BadChannel == "chX"
InvalidBeamline == "XX"
\* calls on one dualBSAStreamBuffer after its construction (setters, stop
\* and get_data) and callbacks delivered to its streams
MaxDualOps == 2

\* PV.clear_callbacks(): a PV handle is shared by every get_pv of its name
ClearPV(subs, pv) == {sub \in subs : sub[1] # pv}

\* lines 71-74: the object before its first _reinit
stream_blank(ch, bl) ==
    [channel |-> ch, beamline |-> bl, pv |-> "", pv_rate |-> "",
     buffer |-> <<>>, p_latest |-> nan, p_prev |-> nan,
     sample_rate |-> 0, spacing |-> nan, ticks |-> nan, modulus |-> nan,
     mutex |-> "free"]

\* lines 82-84 for stream number k: the buffer becomes array(2800), the old
\* value PV's callbacks are cleared, the value PV of the channel is opened
reinit_begin(W, k) ==
    LET st == W.streams[k]
    IN  [W EXCEPT !.streams[k].buffer = Array0d,
                  !.streams[k].pv = st.channel,
                  !.vsubs = IF st.pv = "" THEN @ ELSE ClearPV(@, st.pv)]

\* lines 85-87: the value PV's callbacks are cleared, the rate PV is opened
reinit_value_pv(W, k) ==
    [W EXCEPT !.vsubs = ClearPV(@, W.streams[k].pv),
              !.streams[k].pv_rate = W.streams[k].beamline]

\* lines 88-90: the rate PV's callbacks are cleared, _rate_update attached
reinit_attach_rate(W, k) ==
    [W EXCEPT !.rsubs = ClearPV(@, W.streams[k].pv_rate)
                        \cup {<<W.streams[k].pv_rate, k>>}]

\* line 108: the stream's mutex is taken
reinit_lock(W, k) == [W EXCEPT !.streams[k].mutex = "reinit"]

\* lines 112-113: the history buffer is installed, _stream is attached, and
\* the mutex is released
reinit_install(W, k) ==
    [W EXCEPT !.streams[k].buffer =
                  SampleWindow(MachineHistory(machine, W.streams[k].channel)[1]),
              !.streams[k].mutex = "free",
              !.vsubs = @ \cup {<<W.streams[k].pv, k>>}]

\* line 110 with a history PV that did not answer: the subscript raises
\* TypeError and the with block releases the mutex
reinit_unlock(W, k) == [W EXCEPT !.streams[k].mutex = "free"]

\* the history PV of a channel answers: the PVs of an existing channel do,
\* those of a channel that does not exist never connect
HistoryAnswers(ch) == ch \in DualChannels

\* lines 71-74: a new BSAStreamBuffer object, numbered Len(W.streams) + 1
stream_append(W, ch, bl) == [W EXCEPT !.streams = Append(@, stream_blank(ch, bl))]

\* lines 164-167 on stream number k
stream_stop(W, k) ==
    [W EXCEPT !.vsubs = ClearPV(@, W.streams[k].pv),
              !.rsubs = ClearPV(@, W.streams[k].pv_rate)]

\* lines 273-275 with members number m1 and m2
dual_stop(W, m1, m2) == stream_stop(stream_stop(W, m1), m2)

\* lines 232-233: the members are stopped when _p_latest is positive
dual_reinit_stop(W, m1, m2, latest) == IF latest > 0 THEN dual_stop(W, m1, m2) ELSE W

DualOps == n_sets + n_aligns + n_deliveries

World == [streams |-> streams, vsubs |-> value_subs, rsubs |-> rate_subs]

\* the streams and subscriptions of W become the state
InstallWorld(W) ==
    /\ streams' = W.streams
    /\ value_subs' = W.vsubs
    /\ rate_subs' = W.rsubs

\* the consumer thread outside every call, the delivery thread outside
\* every callback
RunIdle == [pc |-> "idle", op |-> "none", arg |-> "", k |-> 0, phase |-> "none",
            member |-> "none", prev |-> <<0, 0>>, ru |-> NoRateFrame, ticks |-> nan]
\* the constructor raised: the caller holds no object
RunFailed == [RunIdle EXCEPT !.pc = "failed"]
DeliveryIdle == [pc |-> "idle", k |-> 0, value |-> 0, ns |-> 0, p_new |-> 0,
                 b |-> <<>>, p_prev |-> 0, expected |-> 0, era |-> 0,
                 ru |-> NoRateFrame]

\* the variables of the single-stream specification
single_vars == <<stream_vars, delivery_vars, consumer_vars, history_vars, call_vars>>

\* the setter and stop() calls that have returned
SettersReturned ==
    n_sets - (IF dc_run.pc \notin {"idle", "failed"} /\ dc_run.op \notin {"get_data", "init"}
              THEN 1 ELSE 0)

\* lines 183-184, 82-84 on member number k: the channel is stored and the
\* member's _reinit runs up to the wait of line 85
SetMemberChannel(k, op) ==
    /\ dc_run.pc = "idle"
    /\ DualOps < MaxDualOps
    /\ \E value \in DualChannels \cup {BadChannel} :
        /\ InstallWorld(reinit_begin([World EXCEPT !.streams[k].channel = value], k))
        /\ dc_run' = [RunIdle EXCEPT !.pc = "reinit_wait_pv", !.op = op,
                                      !.arg = value, !.k = k, !.phase = "member",
                                      !.prev = <<s1, s2>>]
    /\ n_sets' = n_sets + 1
    /\ UNCHANGED <<single_vars, align_vars, machine, dc_ch1, dc_ch2, dc_beamline, s1, s2,
                   dc_call, n_deliveries, dd_run>>

\* lines 289-291
DualSetCh1 == SetMemberChannel(s1, "ch1")

\* lines 297-299
DualSetCh2 == SetMemberChannel(s2, "ch2")

\* lines 280-283 for a valid beamline
DualSetBeamline ==
    /\ dc_run.pc = "idle"
    /\ DualOps < MaxDualOps
    /\ \E value \in BEAMLINES :
        /\ dc_beamline' = value
        /\ dc_run' = [RunIdle EXCEPT !.pc = "dual_reinit", !.op = "beamline",
                                      !.arg = value, !.prev = <<s1, s2>>]
    /\ n_sets' = n_sets + 1
    /\ UNCHANGED <<single_vars, align_vars, machine, dc_ch1, dc_ch2, streams, s1, s2,
                   value_subs, rate_subs, dc_call, n_deliveries, dd_run>>

DualSetBeamlineUnchecked ==
    /\ dc_run.pc = "idle"
    /\ DualOps < MaxDualOps
    /\ dc_beamline' = InvalidBeamline
    /\ dc_call' = [op |-> "beamline", arg |-> InvalidBeamline, outcome |-> "raised",
                   prev |-> <<s1, s2>>, member |-> "none",
                   built |-> <<"none", "none">>]
    /\ n_sets' = n_sets + 1
    /\ UNCHANGED <<single_vars, align_vars, machine, dc_ch1, dc_ch2, streams, s1, s2,
                   value_subs, rate_subs, n_deliveries, dc_run, dd_run>>

\* line 282 for a value outside BEAMLINES: ValueError, nothing assigned
DualSetBeamlineInvalid ==
    /\ dc_run.pc = "idle"
    /\ DualOps < MaxDualOps
    /\ dc_call' = [op |-> "beamline", arg |-> InvalidBeamline, outcome |-> "raised",
                   prev |-> <<s1, s2>>, member |-> "none",
                   built |-> <<"none", "none">>]
    /\ n_sets' = n_sets + 1
    /\ UNCHANGED <<single_vars, align_vars, machine, dc_ch1, dc_ch2, dc_beamline, streams, s1, s2,
                   value_subs, rate_subs, n_deliveries, dc_run, dd_run>>

\* line 174 on a BSAStreamBuffer object, for a value outside BEAMLINES
StreamSetBeamlineInvalid ==
    /\ dc_run.pc = "idle"
    /\ DualOps < MaxDualOps
    /\ \E k \in {s1, s2} :
        dc_call' = [op |-> "stream.beamline", arg |-> InvalidBeamline,
                    outcome |-> "raised", prev |-> <<k, k>>, member |-> "none",
                    built |-> <<"none", "none">>]
    /\ n_sets' = n_sets + 1
    /\ UNCHANGED <<single_vars, align_vars, machine, dc_ch1, dc_ch2, dc_beamline, streams, s1, s2,
                   value_subs, rate_subs, n_deliveries, dc_run, dd_run>>

\* lines 172-175 on a member, for a valid beamline: self._beamline is
\* stored, which _rate_update reads on the delivery thread
StreamSetBeamline ==
    /\ dc_run.pc = "idle"
    /\ DualOps < MaxDualOps
    /\ \E k \in {s1, s2}, value \in BEAMLINES :
        /\ InstallWorld([World EXCEPT !.streams[k].beamline = value])
        /\ dc_run' = [RunIdle EXCEPT !.pc = "reinit_begin", !.op = "stream.beamline",
                                      !.arg = value, !.k = k, !.phase = "direct",
                                      !.prev = <<k, k>>]
    /\ n_sets' = n_sets + 1
    /\ UNCHANGED <<single_vars, align_vars, machine, dc_ch1, dc_ch2, dc_beamline, s1, s2,
                   dc_call, n_deliveries, dd_run>>

\* lines 183-184, 82-84 on a member, called on the member itself: the
\* channel is stored and the member's _reinit runs up to the wait of line
\* 85; the setter returns when that _reinit ends
StreamSetChannel ==
    /\ dc_run.pc = "idle"
    /\ DualOps < MaxDualOps
    /\ \E k \in {s1, s2}, value \in DualChannels \cup {BadChannel} :
        /\ InstallWorld(reinit_begin([World EXCEPT !.streams[k].channel = value], k))
        /\ dc_run' = [RunIdle EXCEPT !.pc = "reinit_wait_pv", !.op = "stream.channel",
                                      !.arg = value, !.k = k, !.phase = "direct",
                                      !.prev = <<k, k>>]
    /\ n_sets' = n_sets + 1
    /\ UNCHANGED <<single_vars, align_vars, machine, dc_ch1, dc_ch2, dc_beamline, s1, s2,
                   dc_call, n_deliveries, dd_run>>

\* lines 273-275: stop() on the dualBSAStreamBuffer
DualStop ==
    /\ dc_run.pc = "idle"
    /\ DualOps < MaxDualOps
    /\ InstallWorld(dual_stop(World, s1, s2))
    /\ dc_call' = [op |-> "stop", arg |-> "", outcome |-> "ok",
                   prev |-> <<s1, s2>>, member |-> "none",
                   built |-> <<"none", "none">>]
    /\ n_sets' = n_sets + 1
    /\ UNCHANGED <<single_vars, align_vars, machine, dc_ch1, dc_ch2, dc_beamline, s1, s2,
                   n_deliveries, dc_run, dd_run>>

\* lines 164-167: stop() on a member
StreamStop ==
    /\ dc_run.pc = "idle"
    /\ DualOps < MaxDualOps
    /\ \E k \in {s1, s2} :
        /\ InstallWorld(stream_stop(World, k))
        /\ dc_call' = [op |-> "stream.stop", arg |-> "", outcome |-> "ok",
                       prev |-> <<k, k>>, member |-> "none",
                       built |-> <<"none", "none">>]
    /\ n_sets' = n_sets + 1
    /\ UNCHANGED <<single_vars, align_vars, machine, dc_ch1, dc_ch2, dc_beamline, s1, s2,
                   n_deliveries, dc_run, dd_run>>

\* lines 232-234, 71-74, 82-84: dualBSAStreamBuffer._reinit, called by
\* __init__ (line 228) or by a setter, stops the members when _p_latest > 0
\* and starts the construction of the new member 1, which runs up to the
\* wait of line 85
DualReinit ==
    /\ dc_run.pc = "dual_reinit"
    /\ InstallWorld(reinit_begin(
           stream_append(dual_reinit_stop(World, s1, s2, dual_p_latest),
                         dc_ch1, dc_beamline),
           Len(streams) + 1))
    /\ dc_run' = [dc_run EXCEPT !.pc = "reinit_wait_pv", !.k = Len(streams) + 1,
                                !.phase = "new1"]
    /\ UNCHANGED <<single_vars, align_vars, machine, dc_ch1, dc_ch2, dc_beamline, s1, s2,
                   dc_call, n_sets, n_deliveries, dd_run>>

\* a step of BSAStreamBuffer._reinit between two waits: W is the result
ReinitStep(from, to, W) ==
    /\ dc_run.pc = from
    /\ InstallWorld(W)
    /\ dc_run' = [dc_run EXCEPT !.pc = to]
    /\ UNCHANGED <<single_vars, align_vars, machine, dc_ch1, dc_ch2, dc_beamline, s1, s2,
                   dc_call, n_sets, n_deliveries, dd_run>>

\* lines 176, 82-84 on a member whose beamline was stored, up to the wait
\* of line 85
MemberReinitBegin ==
    ReinitStep("reinit_begin", "reinit_wait_pv", reinit_begin(World, dc_run.k))

\* lines 85-87, up to the wait of line 88
MemberReinitValuePV ==
    ReinitStep("reinit_wait_pv", "reinit_wait_rate", reinit_value_pv(World, dc_run.k))

\* lines 88-90, up to the wait in get() of line 93
MemberReinitAttachRate ==
    ReinitStep("reinit_wait_rate", "reinit_rate", reinit_attach_rate(World, dc_run.k))

\* line 93: get() answers, self._sample_rate = min(value, maximum)
MemberReinitRate ==
    /\ dc_run.pc = "reinit_rate"
    /\ ReinitStep("reinit_rate", "reinit_rate_call",
                  [World EXCEPT !.streams[dc_run.k].sample_rate =
                      RateClamped(machine.rate, streams[dc_run.k].beamline)])

\* line 94: self._sample_rate is read and _rate_update called with it; the
\* call reads self.beamline (line 159), which only this thread writes
MemberReinitRateCall ==
    /\ dc_run.pc = "reinit_rate_call"
    /\ InstallWorld(World)
    /\ dc_run' = [dc_run EXCEPT
                     !.pc = "reinit_rate_update",
                     !.ru = rate_update_step(streams[dc_run.k],
                                RateFrame(streams[dc_run.k].sample_rate)).fr]
    /\ UNCHANGED <<single_vars, align_vars, machine, dc_ch1, dc_ch2, dc_beamline, s1, s2,
                   dc_call, n_sets, n_deliveries, dd_run>>

\* lines 159-162 on the consumer thread: the next access of the call.  When
\* it returns, lines 95-102 open the history PV (this specification does not
\* keep its suffix) and the thread waits for it at line 103
MemberReinitRateUpdateStep ==
    /\ dc_run.pc = "reinit_rate_update"
    /\ dc_run.ru.pc # "raised"
    /\ LET r == rate_update_step(streams[dc_run.k], dc_run.ru)
       IN  /\ InstallWorld([World EXCEPT !.streams[dc_run.k] = r.st])
           /\ dc_run' = [dc_run EXCEPT
                            !.ru = r.fr,
                            !.pc = IF r.fr.pc = "returned" THEN "reinit_history"
                                   ELSE "reinit_rate_update"]
    /\ UNCHANGED <<single_vars, align_vars, machine, dc_ch1, dc_ch2, dc_beamline, s1, s2,
                   dc_call, n_sets, n_deliveries, dd_run>>

\* lines 103-108, up to the wait in get_with_metadata() of line 109
MemberReinitLock ==
    /\ dc_run.pc = "reinit_history"
    /\ streams[dc_run.k].mutex = "free"
    /\ ReinitStep("reinit_history", "reinit_get", reinit_lock(World, dc_run.k))

\* lines 109-111, under the mutex: the history PV answers, _p_latest is
\* stored and self.ticks_per_sample is read for line 111
MemberReinitHistory ==
    /\ dc_run.pc = "reinit_get"
    /\ HistoryAnswers(streams[dc_run.k].channel)
    /\ InstallWorld([World EXCEPT !.streams[dc_run.k].p_latest =
                        MachineHistory(machine, streams[dc_run.k].channel)[2]])
    /\ dc_run' = [dc_run EXCEPT !.pc = "reinit_prev",
                                !.ticks = streams[dc_run.k].ticks]
    /\ UNCHANGED <<single_vars, align_vars, machine, dc_ch1, dc_ch2, dc_beamline, s1, s2,
                   dc_call, n_sets, n_deliveries, dd_run>>

\* line 111: self._p_prev is stored
MemberReinitPrev ==
    /\ dc_run.pc = "reinit_prev"
    /\ ReinitStep("reinit_prev", "reinit_install",
                  [World EXCEPT !.streams[dc_run.k].p_prev =
                      MinusTicks(streams[dc_run.k].p_latest, dc_run.ticks)])

\* what follows the end of a BSAStreamBuffer._reinit that leaves W: after
\* the _reinit of a member's own setter the setter returns, and when the
\* setter was called by a setter of the dualBSAStreamBuffer (lines 291, 299)
\* dualBSAStreamBuffer._reinit runs next (lines 292, 300); after a
\* construction (lines 234-235) the new object becomes a member and the
\* next is built, or the failure goes to lines 236-241, which raise out of
\* __init__ (line 228, raise_errors=True) and warn in a setter
ReinitReturns(W, ok) ==
    LET in_init == dc_run.op = "init"
        returns(outcome, member, built) ==
            /\ dc_call' = [op |-> dc_run.op, arg |-> dc_run.arg, outcome |-> outcome,
                           prev |-> dc_run.prev, member |-> member,
                           built |-> built]
            /\ dc_run' = IF in_init /\ ~ok THEN RunFailed ELSE RunIdle
        ended == IF ok THEN "ok" ELSE reinit_failure(FALSE)
    IN  /\ IF dc_run.phase = "member"
           THEN /\ InstallWorld(W)
                /\ dc_run' = [dc_run EXCEPT
                                 !.pc = "dual_reinit", !.k = 0, !.phase = "none",
                                 !.member = ended]
                /\ UNCHANGED <<s1, s2, dc_call>>
           ELSE IF dc_run.phase = "direct"
           THEN /\ InstallWorld(W)
                /\ returns(ended, ended, <<"none", "none">>)
                /\ UNCHANGED <<s1, s2>>
           ELSE IF dc_run.phase = "new1"
           THEN IF ok
                THEN /\ InstallWorld(reinit_begin(
                            stream_append(W, dc_ch2, dc_beamline), Len(W.streams) + 1))
                     /\ s1' = dc_run.k
                     /\ dc_run' = [dc_run EXCEPT !.pc = "reinit_wait_pv",
                                      !.k = Len(W.streams) + 1, !.phase = "new2"]
                     /\ UNCHANGED <<s2, dc_call>>
                ELSE /\ InstallWorld(W)
                     /\ returns(reinit_failure(in_init), dc_run.member,
                                <<reinit_failure(TRUE), "none">>)
                     /\ UNCHANGED <<s1, s2>>
           ELSE IF ok
                THEN /\ InstallWorld(W)
                     /\ s2' = dc_run.k
                     /\ returns("ok", dc_run.member, <<"ok", "ok">>)
                     /\ UNCHANGED s1
                ELSE /\ InstallWorld(W)
                     /\ returns(reinit_failure(in_init), dc_run.member,
                                <<"ok", reinit_failure(TRUE)>>)
                     /\ UNCHANGED <<s1, s2>>
        /\ UNCHANGED <<single_vars, align_vars, machine, dc_ch1, dc_ch2, dc_beamline,
                       n_sets, n_deliveries, dd_run>>

\* lines 112-114: the history buffer is installed, _stream attached and the
\* mutex released at the end of the with block
MemberReinitInstall ==
    ReinitStep("reinit_install", "reinit_released", reinit_install(World, dc_run.k))

\* line 115 and the return: the _reinit ends well
MemberReinitReturn ==
    /\ dc_run.pc = "reinit_released"
    /\ ReinitReturns(World, TRUE)

\* line 93 with a rate PV that did not answer: get() is None, min() raises
\* TypeError, lines 117-122
MemberReinitRateFails ==
    /\ dc_run.pc = "reinit_rate"
    /\ ReinitReturns(World, FALSE)

\* line 160 or 161 of the _rate_update called at line 94 raised
\* ZeroDivisionError, lines 117-122
MemberReinitRateRaises ==
    /\ dc_run.pc = "reinit_rate_update"
    /\ dc_run.ru.pc = "raised"
    /\ ReinitReturns(World, FALSE)

\* lines 109-110 with a history PV that did not answer (the channel has no
\* PV), lines 117-122
MemberReinitHistoryFails ==
    /\ dc_run.pc = "reinit_get"
    /\ ~HistoryAnswers(streams[dc_run.k].channel)
    /\ ReinitReturns(reinit_unlock(World, dc_run.k), FALSE)

\* a read of one attribute of a member by get_data (lines 126, 245)
GetDataStep(from, to) ==
    /\ dc_run.pc = from
    /\ dc_run' = [dc_run EXCEPT !.pc = to]
    /\ UNCHANGED <<single_vars, al_ticks, al_modulus,
                   dual_p_latest, N_pts_sync, al_out,
                   machine, dc_ch1, dc_ch2, dc_beamline, streams, s1, s2,
                   value_subs, rate_subs, dc_call, n_sets, n_deliveries, dd_run>>

\* lines 245, 126: get_data is called and reads member 1's _buffer
DualGetDataReadBuffer1 ==
    /\ dc_run.pc = "idle"
    /\ DualOps < MaxDualOps
    /\ al_b1' = streams[s1].buffer
    /\ dc_run' = [RunIdle EXCEPT !.pc = "get_p1", !.op = "get_data",
                                 !.prev = <<s1, s2>>]
    /\ n_aligns' = n_aligns + 1
    /\ UNCHANGED <<single_vars, al_p1, al_b2, al_p2, al_ticks,
                   al_modulus, dual_p_latest, N_pts_sync, al_out,
                   machine, dc_ch1, dc_ch2, dc_beamline, streams, s1, s2,
                   value_subs, rate_subs, dc_call, n_sets, n_deliveries, dd_run>>

\* line 126 on member 1: its _p_latest
DualGetDataReadPulse1 ==
    /\ GetDataStep("get_p1", "get_b2")
    /\ al_p1' = streams[s1].p_latest
    /\ UNCHANGED <<al_b1, al_b2, al_p2, n_aligns>>

\* line 126 on member 2: its _buffer
DualGetDataReadBuffer2 ==
    /\ GetDataStep("get_b2", "get_p2")
    /\ al_b2' = streams[s2].buffer
    /\ UNCHANGED <<al_b1, al_p1, al_p2, n_aligns>>

\* line 126 on member 2: its _p_latest
DualGetDataReadPulse2 ==
    /\ GetDataStep("get_p2", "get_delta")
    /\ al_p2' = streams[s2].p_latest
    /\ UNCHANGED <<al_b1, al_p1, al_b2, n_aligns>>

\* get_data ends with the result out
GetDataReturns(out) ==
    /\ al_out' = out
    /\ N_pts_sync' = out.N
    /\ dc_call' = [op |-> "get_data", arg |-> "",
                   outcome |-> IF out.raised THEN "raised" ELSE "ok",
                   prev |-> dc_run.prev, member |-> "none",
                   built |-> <<"none", "none">>]
    /\ dc_run' = RunIdle

\* lines 247-256: the pulse id difference and _p_latest; with equal pulse
\* ids the call ends at line 249, otherwise member 1's ticks_per_sample is
\* read, and the call ends at line 256 when it is not-a-number
DualGetDataDelta ==
    /\ dc_run.pc = "get_delta"
    /\ dual_p_latest' = Min(al_p1, al_p2)
    /\ IF al_p1 = al_p2
       THEN /\ \E g \in Garbage :
                GetDataReturns(dual_get_data(al_b1, al_p1, al_b2, al_p2, al_ticks,
                                             al_modulus, N_pts_sync, g))
            /\ UNCHANGED al_ticks
       ELSE /\ al_ticks' = streams[s1].ticks
            /\ IF al_ticks' = nan
               THEN \E g \in Garbage :
                        GetDataReturns(dual_get_data(al_b1, al_p1, al_b2, al_p2,
                                           al_ticks', al_modulus, N_pts_sync, g))
               ELSE /\ dc_run' = [dc_run EXCEPT !.pc = "get_finish"]
                    /\ UNCHANGED <<al_out, N_pts_sync, dc_call>>
    /\ UNCHANGED <<single_vars, al_b1, al_p1, al_b2, al_p2,
                   al_modulus, n_aligns,
                   machine, dc_ch1, dc_ch2, dc_beamline, streams, s1, s2,
                   value_subs, rate_subs, n_sets, n_deliveries, dd_run>>

\* lines 257-271: member 1's buffer_modulus is read, the offset resolved and
\* the rows cut
DualConfigGetData ==
    /\ dc_run.pc = "get_finish"
    /\ al_modulus' = streams[s1].modulus
    /\ \E g \in Garbage :
        GetDataReturns(dual_get_data(al_b1, al_p1, al_b2, al_p2, al_ticks,
                                     al_modulus', N_pts_sync, g))
    /\ UNCHANGED <<single_vars, al_b1, al_p1, al_b2, al_p2,
                   al_ticks, dual_p_latest, n_aligns,
                   machine, dc_ch1, dc_ch2, dc_beamline, streams, s1, s2,
                   value_subs, rate_subs, n_sets, n_deliveries, dd_run>>

\* a step of the delivery thread that leaves the stream objects streams_new
DeliveryStep(run, streams_new) ==
    /\ dd_run' = run
    /\ streams' = streams_new
    /\ UNCHANGED <<single_vars, align_vars, machine, dc_ch1, dc_ch2, dc_beamline, s1, s2,
                   value_subs, rate_subs, dc_call, n_sets, dc_run>>

\* a value PV invokes the _stream callback attached to it with (value, ns)
DualStreamCall ==
    /\ dd_run.pc = "idle"
    /\ DualOps < MaxDualOps
    /\ \E sub \in value_subs :
       \E u \in MachineUpdates(machine, sub[1]) :
        DeliveryStep([DeliveryIdle EXCEPT !.pc = "called", !.k = sub[2],
                                          !.value = u[1], !.ns = u[2],
                                          !.era = SettersReturned],
                     streams)
    /\ n_deliveries' = n_deliveries + 1

\* line 134: self._sample_rate is read; the update is discarded when it is
\* zero
DualStreamReadRate ==
    /\ dd_run.pc = "called"
    /\ IF rate_undefined(streams[dd_run.k].sample_rate)
       THEN DeliveryStep(DeliveryIdle, streams)
       ELSE DeliveryStep([dd_run EXCEPT !.pc = "read_rate"], streams)
    /\ UNCHANGED n_deliveries

\* lines 135-136: p_new, and b = deepcopy(self._buffer)
DualStreamReadBuffer ==
    /\ dd_run.pc = "read_rate"
    /\ DeliveryStep([dd_run EXCEPT !.pc = "read_buffer",
                                   !.p_new = ns_to_pulse_ID(dd_run.ns),
                                   !.b = streams[dd_run.k].buffer],
                    streams)
    /\ UNCHANGED n_deliveries

\* line 137, left operand: self._p_prev is read
DualStreamReadPrev ==
    /\ dd_run.pc = "read_buffer"
    /\ DeliveryStep([dd_run EXCEPT !.pc = "read_prev",
                                   !.p_prev = streams[dd_run.k].p_prev],
                    streams)
    /\ UNCHANGED n_deliveries

\* line 137, right operand: self.ticks_per_sample is read, p_expected
DualStreamExpected ==
    /\ dd_run.pc = "read_prev"
    /\ DeliveryStep([dd_run EXCEPT
                        !.pc = "expected",
                        !.expected = p_expected(dd_run.p_prev, streams[dd_run.k].ticks)],
                    streams)
    /\ UNCHANGED n_deliveries

\* lines 138-143: self.ticks_per_sample is read again; the update raises,
\* or b is the copy with the missed pulses padded
DualStreamCompute ==
    /\ dd_run.pc = "expected"
    /\ LET ticks == streams[dd_run.k].ticks
           jump == jump_of(dd_run.p_new, dd_run.expected, ticks)
       IN  IF dd_run.expected = nan \/ ticks = nan
           THEN DeliveryStep(DeliveryIdle, streams)
           ELSE IF jump > 0 /\ IsArray0d(dd_run.b)
           THEN DeliveryStep(DeliveryIdle, streams)
           ELSE DeliveryStep([dd_run EXCEPT
                                !.pc = "computed",
                                !.b = IF jump > 0 THEN pad_missed(dd_run.b, jump)
                                      ELSE dd_run.b],
                             streams)
    /\ UNCHANGED n_deliveries

\* lines 149-150: the stream's mutex is taken and _buffer assigned; B[-1] =
\* value on a 0-d array raises IndexError and the mutex is released
DualStreamWriteBuffer ==
    /\ dd_run.pc = "computed"
    /\ streams[dd_run.k].mutex = "free"
    /\ IF IsArray0d(dd_run.b)
       THEN DeliveryStep(DeliveryIdle, streams)
       ELSE DeliveryStep([dd_run EXCEPT !.pc = "wrote_buffer"],
                         [streams EXCEPT
                            ![dd_run.k].buffer = push_to_ring_buffer(dd_run.b, dd_run.value),
                            ![dd_run.k].mutex = "stream"])
    /\ UNCHANGED n_deliveries

\* line 151
DualStreamWritePrev ==
    /\ dd_run.pc = "wrote_buffer"
    /\ DeliveryStep([dd_run EXCEPT !.pc = "wrote_prev"],
                    [streams EXCEPT ![dd_run.k].p_prev = streams[dd_run.k].p_latest])
    /\ UNCHANGED n_deliveries

\* line 152, and the mutex is released
DualStreamWriteLatest ==
    /\ dd_run.pc = "wrote_prev"
    /\ DeliveryStep(DeliveryIdle,
                    [streams EXCEPT ![dd_run.k].p_latest = dd_run.p_new,
                                    ![dd_run.k].mutex = "free"])
    /\ UNCHANGED n_deliveries

\* a rate PV invokes the _rate_update callback attached to it
DualRateDelivery ==
    /\ dd_run.pc = "idle"
    /\ DualOps < MaxDualOps
    /\ \E sub \in rate_subs, value \in Rates :
        DeliveryStep([DeliveryIdle EXCEPT !.pc = "rate_update", !.k = sub[2],
                                          !.value = value,
                                          !.era = SettersReturned,
                                          !.ru = RateFrame(value)],
                     streams)
    /\ n_deliveries' = n_deliveries + 1

\* lines 159-162 on the delivery thread: the next access of the call
DualRateStep ==
    /\ dd_run.pc = "rate_update"
    /\ LET r == rate_update_step(streams[dd_run.k], dd_run.ru)
       IN  DeliveryStep(IF RateEnded(r.fr) THEN DeliveryIdle
                        ELSE [dd_run EXCEPT !.ru = r.fr],
                        [streams EXCEPT ![dd_run.k] = r.st])
    /\ UNCHANGED n_deliveries

\* the object at line 228, after lines 224-227: __init__ is about to call
\* _reinit(raise_errors=True), there are no members yet, and the PVs hold
\* what one of the machines holds
DualInit(machines) ==
    /\ StreamOff
    /\ AlignOff
    /\ machine \in machines
    /\ dc_ch1 = "chA" /\ dc_ch2 = "chB" /\ dc_beamline = "NC_HXR"
    /\ streams = <<>> /\ s1 = 0 /\ s2 = 0
    /\ value_subs = {} /\ rate_subs = {}
    /\ dc_call = NoCall
    /\ n_sets = 0 /\ n_deliveries = 0
    /\ dc_run = [RunIdle EXCEPT !.pc = "dual_reinit", !.op = "init"]
    /\ dd_run = DeliveryIdle

InitDual == DualInit(DualMachines)

InitAlign == DualInit(AlignMachines)

NextDual ==
    \/ DualSetCh1
    \/ DualSetCh2
    \/ DualSetBeamline
    \/ DualSetBeamlineInvalid
    \/ StreamSetBeamlineInvalid
    \/ StreamSetBeamline
    \/ StreamSetChannel
    \/ DualStop
    \/ StreamStop
    \/ DualReinit
    \/ MemberReinitBegin
    \/ MemberReinitValuePV
    \/ MemberReinitAttachRate
    \/ MemberReinitRate
    \/ MemberReinitRateFails
    \/ MemberReinitRateCall
    \/ MemberReinitRateUpdateStep
    \/ MemberReinitRateRaises
    \/ MemberReinitLock
    \/ MemberReinitHistory
    \/ MemberReinitPrev
    \/ MemberReinitHistoryFails
    \/ MemberReinitInstall
    \/ MemberReinitReturn
    \/ DualGetDataReadBuffer1
    \/ DualGetDataReadPulse1
    \/ DualGetDataReadBuffer2
    \/ DualGetDataReadPulse2
    \/ DualGetDataDelta
    \/ DualConfigGetData
    \/ DualStreamCall
    \/ DualStreamReadRate
    \/ DualStreamReadBuffer
    \/ DualStreamReadPrev
    \/ DualStreamExpected
    \/ DualStreamCompute
    \/ DualStreamWriteBuffer
    \/ DualStreamWritePrev
    \/ DualStreamWriteLatest
    \/ DualRateDelivery
    \/ DualRateStep

SpecDual == InitDual /\ [][NextDual]_vars

\* the same object and the same steps on the machines of the alignment
SpecAlign == InitAlign /\ [][NextDual]_vars

\* ------------------------------------------------------------------ claims
LastOf(b) == At(b, ALen(b))
LastN(b, n) == Drop(b, ALen(b) - n)
FirstN(b, n) == Take(b, n)

\* C1: a pair returned by get_data is never torn: the returned pulse id is
\* the pulse id of the update that produced the newest element of the
\* returned buffer, in every interleaving with _stream.
C1_NoTornSnapshot ==
    (SnapshotReturned /\ ~IsArray0d(snap_buf)) => snap_p = snap_src

\* the consumer thread is outside every call and its last call was get_data:
\* al_b1, al_p1, al_b2, al_p2 are the snapshots that call took
GotData == dc_run.pc = "idle" /\ dc_call.op = "get_data"

\* b holds the 2800 consecutive samples up to its newest
IsWindow(b) ==
    /\ ALen(b) = BSA_BUFFER_LENGTH
    /\ SameArray(b, SampleWindow(LastOf(b)))

\* the two snapshots of the last call are windows of two streams of one
\* defined rate, the rate the call read, and each pulse id is the pulse id
\* of its buffer's newest sample (no phase jitter)
SnapshotsOfOneRate ==
    /\ IsWindow(al_b1)
    /\ IsWindow(al_b2)
    /\ streams[s1].ticks # nan
    /\ streams[s1].modulus # nan
    /\ streams[s2].ticks = streams[s1].ticks
    /\ al_p1 = PulseIdOf(LastOf(al_b1), streams[s1].ticks, 0)
    /\ al_p2 = PulseIdOf(LastOf(al_b2), streams[s1].ticks, 0)
    /\ al_p1 # al_p2
       => (al_ticks = streams[s1].ticks /\ al_modulus = streams[s1].modulus)

\* the samples by which the newest of one snapshot is ahead of the other's
SnapshotLag == Abs(LastOf(al_b1) - LastOf(al_b2))

\* C2: for two streams of one rate whose newest samples are k pulses apart
\* (no phase jitter), wrapped or not, get_data returns two rows of length
\* 2800 - k whose columns pair samples of the same pulse.  Stated for the k
\* below half the buffer modulus, where the pulse ids determine the lag.
C2_AlignedOverlap ==
    (/\ GotData
     /\ SnapshotsOfOneRate
     /\ SnapshotLag < BSA_BUFFER_LENGTH
     /\ 2 * SnapshotLag < streams[s1].modulus)
    => /\ ~al_out.raised
       /\ ALen(al_out.rows[1]) = BSA_BUFFER_LENGTH - SnapshotLag
       /\ ALen(al_out.rows[2]) = BSA_BUFFER_LENGTH - SnapshotLag
       /\ SameArray(al_out.rows[1], al_out.rows[2])

\* the k >= 1 for which p_new is exactly k * ticks beyond the expected id,
\* in arithmetic modulo 2^14 (0 when there is none below 2800)
MissedSamples(p_new, expected, ticks) ==
    LET beyond == (p_new - expected) % PULSE_ID_MODULUS
    IN  IF beyond % ticks = 0 /\ beyond \div ticks < BSA_BUFFER_LENGTH
        THEN beyond \div ticks ELSE 0

\* C3: an update whose pulse id is exactly k * ticks_per_sample beyond the
\* expected id (modulo 2^14, 1 <= k < 2800) computes missed = k, and the
\* buffer it pushes is the prior data shifted, k not-a-numbers, the value.
C3_MissedPulsePadding ==
    [][(/\ d_pc = "expected"
        /\ d_pc' # "expected"
        /\ d_expected # nan
        /\ ticks_per_sample # nan
        /\ ~IsArray0d(d_b)
        /\ MissedSamples(d_p_new, d_expected, ticks_per_sample) >= 1)
       => LET k == MissedSamples(d_p_new, d_expected, ticks_per_sample)
          IN  /\ d_pc' = "computed"
              /\ d_jump' = k
              /\ ALen(push_to_ring_buffer(d_b', d_value)) = BSA_BUFFER_LENGTH
              /\ SameArray(push_to_ring_buffer(d_b', d_value),
                           Drop(d_b, k + 1) \o NaNs(k) \o <<Run(d_value, 1, 0)>>)
              /\ \A i \in 1..k :
                    At(push_to_ring_buffer(d_b', d_value), BSA_BUFFER_LENGTH - i) = nan
      ]_vars

\* C4: while every update since Initialize came exactly ticks_per_sample
\* after its predecessor (the first one after the history buffer's newest
\* pulse id), the computed missed count is never positive and the buffer
\* about to be pushed is the unpadded 2800-element copy.
C4_NoPaddingAtExactSpacing ==
    (regular /\ d_pc = "computed")
    => /\ d_jump <= 0
       /\ SameArray(d_b, buffer)

\* C5: the buffer returned by get_data has length exactly 2800 after any
\* sequence of operations, failed reconfigurations included.
C5_SnapshotLength ==
    SnapshotReturned => ALen(snap_buf) = BSA_BUFFER_LENGTH

\* a step of a _stream invocation
StreamRuns ==
    d_pc \in {"called", "read_rate", "read_buffer", "read_prev", "expected",
              "computed", "wrote_buffer", "wrote_prev"}

\* C6: every update that is not discarded ends with latest_pulse_id the low
\* 14 bits of its timestamp, in [0, 2^14), with the value as the final
\* element of the 2800-element buffer, and with previous_pulse_id the
\* latest_pulse_id held before it; for every timestamp, also one with a
\* lower pulse id.
C6_UpdateInstallsValueAndCursor ==
    [][(StreamRuns /\ d_pc' = "idle" /\ d_outcome' # "discarded")
       => /\ p_latest' = d_ns % 16384
          /\ p_latest' \in 0..16383
          /\ ALen(buffer') = BSA_BUFFER_LENGTH
          /\ LastOf(buffer') = d_value
          /\ p_prev' = p_latest
      ]_vars

\* C7: with a resolved offset o, 0 < |o| < 2800, N_pts_sync = 2800 - |o| and
\* both rows have that length; for o > 0 row 1 is the last 2800 - o elements
\* of buffer 1 and row 2 the first 2800 - o of buffer 2; for o < 0 row 1 is
\* the first 2800 - |o| of buffer 1 and row 2 the last 2800 - |o| of buffer 2.
C7_OffsetSlices ==
    (/\ GotData
     /\ al_out.offset # nan
     /\ al_out.offset # 0
     /\ Abs(al_out.offset) < BSA_BUFFER_LENGTH)
    => LET o == al_out.offset
           n == BSA_BUFFER_LENGTH - Abs(o)
       IN  /\ ~al_out.raised
           /\ N_pts_sync = n
           /\ ALen(al_out.rows[1]) = n
           /\ ALen(al_out.rows[2]) = n
           /\ o > 0 => /\ SameArray(al_out.rows[1], LastN(al_b1, n))
                       /\ SameArray(al_out.rows[2], FirstN(al_b2, n))
                       /\ \A i \in {1, n} : /\ At(al_out.rows[1], i) = At(al_b1, i + o)
                                             /\ At(al_out.rows[2], i) = At(al_b2, i)
           /\ o < 0 => /\ SameArray(al_out.rows[1], FirstN(al_b1, n))
                       /\ SameArray(al_out.rows[2], LastN(al_b2, n))
                       /\ \A i \in {1, n} : /\ At(al_out.rows[1], i) = At(al_b1, i)
                                             /\ At(al_out.rows[2], i) = At(al_b2, i - o)

\* C8: with equal pulse ids get_data returns the two full 2800-element
\* buffers unchanged, the common pulse id, and leaves N_pts_sync as it was.
C8_EqualPulseIds ==
    [][(dc_run.pc = "get_delta" /\ dc_run'.pc = "idle" /\ al_p1 = al_p2)
       => /\ ~al_out'.raised
          /\ al_out'.rows = <<al_b1, al_b2>>
          /\ ALen(al_out'.rows[1]) = BSA_BUFFER_LENGTH
          /\ ALen(al_out'.rows[2]) = BSA_BUFFER_LENGTH
          /\ al_out'.p = al_p1
          /\ dual_p_latest' = al_p1
          /\ N_pts_sync' = N_pts_sync
      ]_vars

\* C9: with buffer_modulus M and 0 < j < M/2, a raw shot delta of M + j and
\* one of -(M - j) both resolve to offset magnitude j.
C9_WraparoundSymmetry ==
    (GotData /\ al_p1 # al_p2 /\ al_ticks # nan)
    => LET raw == dshot_raw(al_p2 - al_p1, al_ticks)
           M == al_modulus
       IN  /\ (raw > M /\ 2 * (raw - M) < M)
              => Abs(shot_offset(al_p2 - al_p1, al_ticks, M)) = raw - M
           /\ (raw < 0 /\ raw + M > 0 /\ 2 * (raw + M) < M)
              => Abs(shot_offset(al_p2 - al_p1, al_ticks, M)) = raw + M

\* C10: with ticks_per_sample 6 and buffer_modulus 2730, a pulse id
\* difference giving raw shot delta 2727 (rollover delta -3) resolves to
\* offset -3: row 1 is buffer 1's first 2797 elements, row 2 is buffer 2
\* from its fourth element.
C10_WrappedOffsetSign ==
    (/\ GotData
     /\ al_ticks = 6
     /\ al_modulus = 2730
     /\ dshot_raw(al_p2 - al_p1, al_ticks) = 2727
     /\ dshot_rollover(al_p2 - al_p1, al_ticks, al_modulus) = -3)
    => /\ al_out.offset = -3
       /\ SameArray(al_out.rows[1], FirstN(al_b1, 2797))
       /\ SameArray(al_out.rows[2], Drop(al_b2, 3))

\* C11: whenever the offset get_data resolves has magnitude >= 2800 (so that
\* N_pts_sync <= 0), the call returns an empty result together with the
\* latest synced pulse id, and raises nothing.
C11_DegenerateNeverRaises ==
    (/\ GotData
     /\ al_p1 # al_p2
     /\ al_ticks # nan
     /\ Abs(shot_offset(al_p2 - al_p1, al_ticks, al_modulus)) >= BSA_BUFFER_LENGTH)
    => /\ ~al_out.raised
       /\ ALen(al_out.rows[1]) = 0
       /\ ALen(al_out.rows[2]) = 0
       /\ al_out.p = Min(al_p1, al_p2)

\* a step of a _rate_update call, on either thread
RateUpdateActs ==
    \/ d_pc = "rate_update" /\ d_ru' # d_ru
    \/ c_pc = "reinit_rate_update" /\ c_ru' # c_ru

\* C12: when a rate update with value zero returns, sample_spacing,
\* ticks_per_sample and buffer_modulus are not-a-number, and no step of a
\* rate update, whatever its value, changes the buffer or either pulse-id
\* cursor.
C12_RateUpdateFrame ==
    [][/\ RateUpdateActs => UNCHANGED <<buffer, p_prev, p_latest>>
       /\ (d_pc = "rate_update" /\ d_ru'.pc = "returned" /\ d_ru.value = 0)
          => /\ sample_spacing' = nan
             /\ ticks_per_sample' = nan
             /\ buffer_modulus' = nan
      ]_vars

\* the quantities derived from a positive sample rate agree with it
RateConsistent(rate, ticks, modulus, spacing) ==
    /\ ticks * rate = AC_FIDUCIAL_RATE
    /\ spacing * rate = AC_FIDUCIAL_RATE
    /\ modulus * ticks <= PULSE_ID_MODULUS
    /\ (modulus + 1) * ticks > PULSE_ID_MODULUS

\* a _rate_update call is between its first and its last statement, or
\* _reinit between its lines 93 and 94
RateUpdateRunning ==
    \/ d_pc = "rate_update"
    \/ c_pc \in {"reinit_rate_call", "reinit_rate_update"}

\* what is stated of the object after a rate update with value v > 0
RateAsStated(v) ==
    /\ sample_rate' = Min(v, IF beamline' = "F2" THEN 30 ELSE 120)
    /\ RateConsistent(sample_rate', ticks_per_sample', buffer_modulus',
                      sample_spacing')
    /\ (beamline' = "NC_HXR" /\ v = 60)
       => (ticks_per_sample' = 6 /\ buffer_modulus' = 2730)
    /\ (beamline' = "NC_HXR" /\ v = 360)
       => (sample_rate' = 120 /\ ticks_per_sample' = 3)

\* C13: after the constructor and after every rate update with a value
\* v > 0 (the one _reinit makes at line 94 included), sample_rate is
\* min(v, maximum of the beamline class), ticks_per_sample is
\* 360 / sample_rate and buffer_modulus is floor(2^14 / ticks_per_sample);
\* maximum 120 and v = 60 give 6 and 2730, v = 360 gives 120 and 3.  While
\* no rate update is running a positive sample_rate has its derived
\* quantities.
C13_RateDerivedQuantities ==
    /\ []((~RateUpdateRunning /\ sample_rate > 0)
           => RateConsistent(sample_rate, ticks_per_sample, buffer_modulus,
                             sample_spacing))
    /\ [][/\ (d_pc = "rate_update" /\ d_ru'.pc = "returned" /\ d_ru.value > 0)
             => RateAsStated(d_ru.value)
          /\ (c_pc = "reinit_rate_update" /\ c_ru'.pc = "returned" /\ c_ru.value > 0)
             => RateAsStated(c_ru.value)
          ]_vars

\* C14: once stop() has returned on a stream that was never reconfigured,
\* the buffer, the two pulse-id cursors and the rate-derived quantities
\* never change, not even by a callback that was already running when
\* stop() was called.
C14_NothingAppliedAfterStop ==
    [][(stopped /\ stopped' /\ n_reinits = 0)
       => UNCHANGED <<buffer, p_prev, p_latest, sample_rate, sample_spacing,
                      ticks_per_sample, buffer_modulus>>
      ]_vars

\* the consumer thread is outside every call and the last call was a
\* setter that returned normally
SetterReturned ==
    /\ dc_run.pc = "idle"
    /\ dc_call.op \in {"ch1", "ch2", "beamline"}
    /\ dc_call.outcome = "ok"

Subscribed(k) == \E sub \in value_subs \cup rate_subs : sub[2] = k

\* C15: after a configuration setter has rebuilt the members, whether or
\* not get_data was called before, the two streams owned before the call
\* hold no value or rate subscription, and the two members are new objects.
C15_SetterStopsOldMembers ==
    SetterReturned
    => /\ ~Subscribed(dc_call.prev[1])
       /\ ~Subscribed(dc_call.prev[2])
       /\ s1 \notin {dc_call.prev[1], dc_call.prev[2]}
       /\ s2 \notin {dc_call.prev[1], dc_call.prev[2]}
       /\ s1 # s2

\* C16: after ch1 (ch2) has been set to an existing channel c, reading ch1
\* (ch2) gives c and member 1 (2) has its _stream callback on c's PV; after
\* beamline has been set to b, both members are built for b.
C16_SetGetRoundTrip ==
    (/\ SetterReturned
     /\ dc_call.arg \in DualChannels \cup BEAMLINES
     /\ dc_call.member # "warned")
    => /\ dc_call.op = "ch1"
          => (streams[s1].channel = dc_call.arg /\ <<dc_call.arg, s1>> \in value_subs)
       /\ dc_call.op = "ch2"
          => (streams[s2].channel = dc_call.arg /\ <<dc_call.arg, s2>> \in value_subs)
       /\ dc_call.op = "beamline"
          => /\ dc_beamline = dc_call.arg
             /\ streams[s1].beamline = dc_call.arg
             /\ streams[s2].beamline = dc_call.arg

\* C17: setting beamline to a value outside BEAMLINES, on a
\* BSAStreamBuffer or on a dualBSAStreamBuffer, raises and changes nothing:
\* configuration, member streams with their buffers and cursors, and
\* subscriptions are as before, and no _reinit has run.
C17_InvalidBeamlineRejected ==
    [][(n_sets' = n_sets + 1 /\ dc_run'.pc = "idle" /\ dc_call'.arg = InvalidBeamline)
       => /\ dc_call'.outcome = "raised"
          /\ dc_call'.built = <<"none", "none">>
          /\ UNCHANGED <<dc_ch1, dc_ch2, dc_beamline, streams, s1, s2,
                         value_subs, rate_subs, dual_p_latest, N_pts_sync, dc_run>>
      ]_vars

C17_Witness ==
    /\ n_sets = 2
    /\ dc_call.op = "beamline"
    /\ dc_call.arg = InvalidBeamline
    /\ dc_call.outcome = "raised"
    /\ dc_beamline = "F2"
    /\ streams[s1].beamline = "F2"
    /\ streams[s2].beamline = "F2"

\* the member whose own channel setter the last call ran
SetMember == IF dc_call.op = "ch1" THEN dc_call.prev[1] ELSE dc_call.prev[2]

\* C18: a failing construction (raise_errors true) raises to its caller and
\* the object is not installed; a failing re-initialization through a
\* setter (raise_errors false) raises nothing, warns, and leaves the stream
\* without a value subscription, so that no update delivered after the
\* setter returned changes its buffer or cursors.
C18_FailurePolicy ==
    /\ []((dc_call.op = "init" /\ dc_call.outcome # "ok")
           => (/\ dc_call.outcome = "raised"
               /\ dc_run.pc = "failed"
               /\ "raised" \in {dc_call.built[1], dc_call.built[2]}))
    /\ [](dc_run.pc = "failed" => dc_call.outcome = "raised")
    /\ [](dc_call.built[1] \in {"none", "ok", "raised"})
    /\ [](dc_call.built[2] \in {"none", "ok", "raised"})
    /\ []((dc_run.pc = "idle" /\ dc_call.built[1] = "raised")
           => (dc_call.outcome = "warned" /\ <<s1, s2>> = dc_call.prev))
    /\ []((dc_run.pc = "idle" /\ dc_call.built[2] = "raised")
           => (dc_call.outcome = "warned" /\ s2 = dc_call.prev[2]))
    /\ []((dc_run.pc = "idle" /\ dc_call.member = "warned")
           => (/\ dc_call.outcome \in {"ok", "warned"}
               /\ \A sub \in value_subs : sub[2] # SetMember))
    /\ [][(/\ dc_call.member = "warned"
           /\ dc_run.pc = "idle" /\ dc_run' = dc_run
           /\ (dd_run.pc = "idle" \/ dd_run.era = n_sets))
           => /\ streams'[SetMember].buffer = streams[SetMember].buffer
              /\ streams'[SetMember].p_latest = streams[SetMember].p_latest
              /\ streams'[SetMember].p_prev = streams[SetMember].p_prev
          ]_vars

C18_Witness ==
    /\ dc_call.op = "ch1"
    /\ dc_call.arg = BadChannel
    /\ dc_call.member = "warned"
    /\ dc_call.built = <<"ok", "raised">>
    /\ dc_call.outcome = "warned"
    /\ IsArray0d(streams[SetMember].buffer)
    /\ n_deliveries = 1

\* C19: the array get_data returned is an independent copy: no step of a
\* later update changes it, and a write of the caller into it leaves the
\* stream's buffer, and so the next snapshot, as it was.  The second part
\* is stated for a buffer that a completed update installed (an array that
\* numpy's roll created).
C19_SnapshotIndependent ==
    [][/\ (d_pc' # d_pc) => snap_buf' = snap_buf
       /\ (n_writes' = n_writes + 1 /\ d_outcome = "applied" /\ d_pc = "idle")
          => buffer' = buffer
      ]_vars

\* C20: no invocation of _stream raises to the delivery thread, in any
\* state of the stream (during and after re-initializations included) and
\* for any delivered value and timestamp.
C20_StreamNeverRaises ==
    d_outcome # "raised"

\* C21: when the last _stream invocation read the buffer and the previous
\* pulse id before the last _reinit began, and both have completed (the _reinit by installing the history buffer),
\* the buffer is the installed history buffer: what the update read before
\* the re-initialization is not written over it.
C21_ReinitNotUndone ==
    (/\ d_pc = "idle"
     /\ c_pc = "idle"
     /\ pv_callback
     /\ n_reinits >= 1
     /\ d_epoch < n_reinits
     /\ n_writes = 0)
    => /\ SameArray(buffer, HistoryValue(channel))
       /\ buffer_src = p_latest

\* the four buckets of the history suffix as stated: below 10, from 10 to
\* below the class maximum, and at or above the class maximum on an SC
\* beamline and elsewhere
SuffixBucket(rate, bl) ==
    IF rate >= MAX_BUFRATES(bl)
    THEN (IF bl \in SC_BEAMLINES THEN "HH" ELSE "BR")
    ELSE IF rate >= 10 THEN "TH" ELSE "1H"

\* C22: whenever _reinit selects the history PV, its suffix is the bucket of
\* the (clamped) sample rate and the beamline: "1H" below 10, "TH" from 10 to
\* below the class maximum, "HH" or "BR" at or above the class maximum.
C22_SuffixBuckets ==
    [][(c_pc \in {"reinit_suffix", "reinit_suffix_elif"} /\ c_pc' = "reinit_history")
       => pv_history' = SuffixBucket(sample_rate', beamline)]_vars

\* C23: a _stream invoked while the sample rate is zero ends at its first
\* statement, as a discarded update: nothing of the invocation remains to
\* run, and buffer, _p_prev and _p_latest are what they were, whatever the
\* value and the timestamp.
C23_ZeroRateNoOp ==
    [][(d_pc = "called" /\ sample_rate = 0 /\ d_pc' # d_pc)
       => /\ d_pc' = "idle"
          /\ d_outcome' = "discarded"
          /\ UNCHANGED <<buffer, p_prev, p_latest, buffer_src>>]_vars

C23_Witness ==
    /\ d_outcome = "discarded"
    /\ d_pc = "idle"
    /\ sample_rate = 0
    /\ d_value # 0

\* C24: after every get_data call that returned, N_pts_sync is at most 2800
\* and is the number of columns of the array the call returned, whatever the
\* two snapshot pulse ids are, equal ones and the first call included.
C24_SyncedCountIsColumns ==
    (GotData /\ ~al_out.raised)
    => /\ N_pts_sync <= BSA_BUFFER_LENGTH
       /\ N_pts_sync = ALen(al_out.rows[1])
       /\ N_pts_sync = ALen(al_out.rows[2])

\* row is the first or the last ALen(row) elements of buf
EndSliceOf(row, buf) ==
    /\ ALen(row) <= ALen(buf)
    /\ \/ SameArray(row, Take(buf, ALen(row)))
       \/ SameArray(row, Drop(buf, ALen(buf) - ALen(row)))

\* C25: every get_data call that returns does so with rows that are
\* contiguous slices of the two snapshots (a leading or a trailing part of
\* each), for every pair of pulse ids, a nonzero difference that resolves
\* to offset 0 included.
C25_RowsAreSlices ==
    (GotData /\ ~al_out.raised)
    => /\ EndSliceOf(al_out.rows[1], al_b1)
       /\ EndSliceOf(al_out.rows[2], al_b2)

\* C26: with the rate gone to zero, so that ticks_per_sample and
\* buffer_modulus are not-a-number, get_data returns a result and does not
\* raise, when the two snapshot pulse ids are equal and when they differ.
C26_ZeroRateAlignReturns ==
    (/\ GotData
     /\ streams[s1].sample_rate = 0
     /\ streams[s1].ticks = nan
     /\ streams[s1].modulus = nan
     /\ al_p1 # al_p2 => al_ticks = nan)
    => /\ ~al_out.raised
       /\ ALen(al_out.rows[1]) = ALen(al_out.rows[2])
       /\ al_out.p = Min(al_p1, al_p2)

\* both members completed _reinit: each has its _stream callback attached
BothInitialized ==
    /\ s1 # 0 /\ s2 # 0
    /\ <<streams[s1].channel, s1>> \in value_subs
    /\ <<streams[s2].channel, s2>> \in value_subs
    /\ streams[s1].beamline = streams[s2].beamline

\* C27: once both members of a dualBSAStreamBuffer are initialized and no
\* rate callback is running, every rate update has reached both: the
\* ticks_per_sample and buffer_modulus that get_data reads from member 1
\* equal member 2's.
C27_RateReachesBothMembers ==
    (BothInitialized /\ dd_run.pc # "rate_update")
    => /\ streams[s1].ticks = streams[s2].ticks
       /\ streams[s1].modulus = streams[s2].modulus
       /\ streams[s1].sample_rate = streams[s2].sample_rate

\* the arrays and pulse id two returning calls gave are equal
SameResult(o1, o2) ==
    /\ o1.p = o2.p
    /\ \A i \in {1, 2} :
        /\ ALen(o1.rows[i]) = ALen(o2.rows[i])
        /\ SameArray(o1.rows[i], o2.rows[i])

\* a step of the consumer thread inside get_data
GetDataActs ==
    /\ dc_run' # dc_run
    /\ dc_run.op = "get_data" \/ dc_run'.op = "get_data"

\* C28: get_data is a pure read of its member streams: no step of a call
\* changes a member's buffer, pulse ids or rate-derived quantities, or a
\* subscription, and the result depends only on the two snapshots and the
\* rate: a call that read what the call before it had read returns what
\* that call returned.
C28_AlignPureRead ==
    /\ [][GetDataActs => UNCHANGED <<streams, value_subs, rate_subs>>]_vars
    /\ [][(/\ GetDataActs
           /\ dc_run'.pc = "idle"
           /\ dc_call.op = "get_data"
           /\ al_out'.from = al_out.from
           /\ ~al_out.raised /\ ~al_out'.raised)
          => SameResult(al_out, al_out')]_vars

====
